---- MODULE Spec2Model ----
(***************************************************************************)
(* Model of the queue worker (ml-service/sqs_worker.py) and of the batch   *)
(* classification engine (ml-service/controllers/                          *)
(* classification_controller.py) of the distributed classification system. *)
(*                                                                         *)
(* Conventions.  An optional value (a key of the JSON body that may be     *)
(* missing, a Python None) is a sequence of length at most one: <<>> is    *)
(* "absent", <<v>> is "present with value v".  Scores and thresholds are   *)
(* percentages (0.5 is 50).  An S3 key is the sequence of its path         *)
(* segments ("in/a.jpg" is <<"in", "a.jpg">>).  Latencies are not          *)
(* modelled.                                                               *)
(***************************************************************************)
EXTENDS Integers, Sequences, FiniteSets, TLC

\* ------------------------------------------------------------------------
\* Bounds of the model and configuration of the worker
\* ------------------------------------------------------------------------

\* messages that exist on the request queue
NumMsgs == 2

\* the MAX_WORKERS and BATCH_SIZE the environment configures
\* (sqs_worker.py, lines 40-41): small, with a batch that may exceed the
\* maximum concurrency
MAX_WORKERS == 1
BATCH_SIZE == 2

\* the longest list of image keys of the jobs of the engine specification
MaxKeys == 3

\* how often the request queue hands out one message where receives are
\* counted
MaxReceives == 2

\* schemas/requests.py: top_k default and range, threshold default and range
DefaultTopK == 5
MinTopK == 1
MaxTopK == 10
DefaultThreshold == 50
MinThreshold == 0
MaxThreshold == 100

None == <<>>
Some(v) == <<v>>
IsSome(o) == Len(o) = 1
Get(o) == o[1]
GetOr(o, d) == IF Len(o) = 1 THEN o[1] ELSE d

Min(a, b) == IF a <= b THEN a ELSE b

\* ------------------------------------------------------------------------
\* Queue messages
\* ------------------------------------------------------------------------

JobTypes == {"image_classification", "custom_classification"}

KeyLists == { <<>>, << <<"in", "a.jpg">> >>, << <<"in", "a.jpg">>, <<"b.jpg">> >> }

LabelLists == { <<>>, <<"cat", "dog">> }

\* retry_count of a body: absent, a number, or a value that cannot be
\* compared with a number (a string)
RetryCounts == { None, Some(<<"int", 0>>), Some(<<"int", 2>>), Some(<<"str", 0>>) }

\* a body json.loads rejects
UnparsableBody ==
    [kind |-> "unparsable", job_id |-> None, job_type |-> None,
     s3_bucket |-> None, s3_keys |-> None, custom_labels |-> None,
     top_k |-> None, confidence_threshold |-> None, retry_count |-> None]

\* a body that is JSON but no object (a list, a number, a string)
NonObjectBody == [UnparsableBody EXCEPT !.kind = "nonobject"]

\* a job_id that is the JSON null: body['job_id'] reads it as None
NullJobId == 0

\* every JSON object the model sends as the body of message j
ObjectBodies(j) ==
    [kind : {"object"},
     job_id : {None, Some(NullJobId), Some(j)},
     job_type : {None, Some("bogus")} \cup {Some(t) : t \in JobTypes},
     s3_bucket : {None, Some("bucket")},
     s3_keys : {None} \cup {Some(k) : k \in KeyLists},
     custom_labels : {None} \cup {Some(l) : l \in LabelLists},
     top_k : {None, Some(0), Some(3), Some(11)},
     confidence_threshold : {None, Some(60), Some(150)},
     retry_count : RetryCounts]

AllBodies(j) == {UnparsableBody, NonObjectBody} \cup ObjectBodies(j)

\* a valid standard job of one image
ValidImageBody(j) ==
    [kind |-> "object", job_id |-> Some(j),
     job_type |-> Some("image_classification"),
     s3_bucket |-> Some("bucket"), s3_keys |-> Some(<< <<"in", "a.jpg">> >>),
     custom_labels |-> None, top_k |-> None,
     confidence_threshold |-> None, retry_count |-> None]

\* a valid custom job of one image
ValidCustomBody(j) ==
    [ValidImageBody(j) EXCEPT
        !.job_type = Some("custom_classification"),
        !.s3_keys = Some(<< <<"b.jpg">> >>),
        !.custom_labels = Some(<<"cat", "dog">>),
        !.top_k = Some(3), !.confidence_threshold = Some(60)]

\* the bodies of the batch specification: one of each way a message ends
CoreBodies(j) ==
    { UnparsableBody,
      ValidImageBody(j),
      ValidCustomBody(j),
      [ValidImageBody(j) EXCEPT !.job_type = Some("bogus"),
                                !.retry_count = Some(<<"str", 0>>)],
      [ValidCustomBody(j) EXCEPT !.custom_labels = None,
                                 !.retry_count = Some(<<"int", 2>>)] }

\* the image keys of the jobs of the engine specification: two of them
\* share their file name
Keys == { <<"in", "a.jpg">>, <<"a.jpg">>, <<"b.jpg">> }

\* the label lists of the jobs of the engine specification: one of them
\* holds the label "unknown"
JobLabelLists == LabelLists \cup { <<"unknown", "dog">> }

\* every list of at most MaxKeys keys, repeated keys included
JobKeyLists == UNION { [1..n -> Keys] : n \in 0..MaxKeys }

\* the bodies of the engine specification: the jobs request construction
\* accepts, over every key list, with and without labels
JobBodies(j) ==
    { [ValidImageBody(j) EXCEPT
          !.job_type = Some(t), !.s3_keys = Some(k), !.custom_labels = l,
          !.top_k = tk, !.confidence_threshold = th] :
        t \in JobTypes, k \in JobKeyLists,
        l \in {None} \cup {Some(x) : x \in JobLabelLists},
        tk \in {None, Some(1)}, th \in {None, Some(60)} }

\* a raw message as receive_message returns it
Message(rh, b) == [ReceiptHandle |-> rh, Body |-> b]

\* ------------------------------------------------------------------------
\* schemas/requests.py and the request construction of process_message
\* ------------------------------------------------------------------------

\* a parse that refuses a message delivered for the third time
ParseErrorMaxRetries(b) ==
    CASE b.kind = "unparsable" -> "JSONDecodeError"
      [] b.kind = "nonobject" -> "AttributeError: get"
      [] ~IsSome(b.job_id) -> "KeyError: job_id"
      [] ~IsSome(b.job_type) -> "KeyError: job_type"
      [] Get(b.job_type) \notin JobTypes -> "ValueError: not a valid JobType"
      [] ~IsSome(b.s3_bucket) -> "KeyError: s3_bucket"
      [] ~IsSome(b.s3_keys) -> "KeyError: s3_keys"
      [] \/ Get(b.job_id) = NullJobId
         \/ GetOr(b.top_k, DefaultTopK) < MinTopK
         \/ GetOr(b.top_k, DefaultTopK) > MaxTopK
         \/ GetOr(b.confidence_threshold, DefaultThreshold) < MinThreshold
         \/ GetOr(b.confidence_threshold, DefaultThreshold) > MaxThreshold
              -> "ValidationError"
      [] /\ IsSome(b.retry_count)
         /\ Get(b.retry_count)[1] = "int"
         /\ Get(b.retry_count)[2] >= 2 -> "MaxRetriesExceeded"
      [] OTHER -> ""

\* the exception lines 58-70 of process_message raise on a body, "" if none
ParseError(b) ==
    CASE b.kind = "unparsable" -> "JSONDecodeError"
      [] b.kind = "nonobject" -> "AttributeError: get"
      [] ~IsSome(b.job_id) -> "KeyError: job_id"
      [] ~IsSome(b.job_type) -> "KeyError: job_type"
      [] Get(b.job_type) \notin JobTypes -> "ValueError: not a valid JobType"
      [] ~IsSome(b.s3_bucket) -> "KeyError: s3_bucket"
      [] ~IsSome(b.s3_keys) -> "KeyError: s3_keys"
      [] \/ Get(b.job_id) = NullJobId
         \/ GetOr(b.top_k, DefaultTopK) < MinTopK
         \/ GetOr(b.top_k, DefaultTopK) > MaxTopK
         \/ GetOr(b.confidence_threshold, DefaultThreshold) < MinThreshold
         \/ GetOr(b.confidence_threshold, DefaultThreshold) > MaxThreshold
              -> "ValidationError"
      [] OTHER -> ""

\* a worker whose default threshold is 1.0 where the schema's is 0.5
ClassificationRequestStrictThreshold(b) ==
    [job_id |-> Get(b.job_id),
     job_type |-> Get(b.job_type),
     s3_bucket |-> Get(b.s3_bucket),
     s3_keys |-> Get(b.s3_keys),
     custom_labels |-> b.custom_labels,
     top_k |-> GetOr(b.top_k, DefaultTopK),
     confidence_threshold |-> GetOr(b.confidence_threshold, MaxThreshold)]

\* ClassificationRequest(...) of lines 62-70, for a body ParseError accepts
ClassificationRequest(b) ==
    [job_id |-> Get(b.job_id),
     job_type |-> Get(b.job_type),
     s3_bucket |-> Get(b.s3_bucket),
     s3_keys |-> Get(b.s3_keys),
     custom_labels |-> b.custom_labels,
     top_k |-> GetOr(b.top_k, DefaultTopK),
     confidence_threshold |-> GetOr(b.confidence_threshold, DefaultThreshold)]

NoRequest ==
    [job_id |-> 0, job_type |-> "", s3_bucket |-> "", s3_keys |-> <<>>,
     custom_labels |-> None, top_k |-> 0, confidence_threshold |-> 0]

\* FailureStatus that reports a body it cannot read under job id 0
FailureStatusAnyBody(b, e) ==
    Some([job_id |-> GetOr(b.job_id, 0), status |-> "failed",
          error |-> [retry |-> 0, text |-> e]])

\* a handler that never words the retry count into the error
FailureStatusBare(b, e) ==
    IF b.kind # "object" THEN None
    ELSE IF IsSome(b.retry_count) /\ Get(b.retry_count)[1] # "int" THEN None
    ELSE IF ~IsSome(b.job_id) THEN None
    ELSE Some([job_id |-> Get(b.job_id), status |-> "failed",
               error |-> [retry |-> 0, text |-> e]])

\* the failure status lines 94-105 build from a body and str(e); None when
\* building it raises (caught at line 108, nothing is sent)
FailureStatus(b, e) ==
    IF b.kind # "object" THEN None
    ELSE IF IsSome(b.retry_count) /\ Get(b.retry_count)[1] # "int" THEN None
    ELSE IF ~IsSome(b.job_id) THEN None
    ELSE LET retry_count == IF IsSome(b.retry_count)
                            THEN Get(b.retry_count)[2] ELSE 0
         IN Some([job_id |-> Get(b.job_id), status |-> "failed",
                  error |-> [retry |-> IF retry_count >= 1
                                       THEN retry_count ELSE 0,
                             text |-> e]])

\* ------------------------------------------------------------------------
\* Classifiers
\* ------------------------------------------------------------------------

Front(s) == SubSeq(s, 1, Len(s) - 1)

\* an unstable sort: x goes before the entries of its own score
InsertDescLastWins(s, x) ==
    LET n == Cardinality({k \in 1..Len(s) : s[k].score > x.score})
    IN SubSeq(s, 1, n) \o <<x>> \o SubSeq(s, n + 1, Len(s))

\* x placed behind every entry of the descending list s that scores >= x
InsertDesc(s, x) ==
    LET n == Cardinality({k \in 1..Len(s) : s[k].score >= x.score})
    IN SubSeq(s, 1, n) \o <<x>> \o SubSeq(s, n + 1, Len(s))

RECURSIVE SortedDesc(_)
\* sorted(results, key=score, reverse=True): stable
SortedDesc(s) ==
    IF s = <<>> THEN <<>> ELSE InsertDesc(SortedDesc(Front(s)), s[Len(s)])

\* ClipModel.predict, lines 66-76: one entry per label, sorted, cut to top_k
ClipPredict(custom_labels, probs, top_k) ==
    LET results == [k \in 1..Len(custom_labels) |->
                       [label |-> custom_labels[k], score |-> probs[k]]]
        sorted == SortedDesc(results)
    IN SubSeq(sorted, 1, Min(top_k, Len(sorted)))

\* the probabilities the CLIP network may give two labels
ClipProbs == { <<90, 10>>, <<40, 60>>, <<50, 50>> }

\* the ranked lists the closed-vocabulary classifier may return
MobileNetReplies ==
    { <<>>,
      << [label |-> "cat", score |-> 90], [label |-> "dog", score |-> 5] >>,
      << [label |-> "cat", score |-> 40], [label |-> "dog", score |-> 30] >> }

\* the exception classes the label check of classify_batch raises
\* (line 131)
ValidationRaises == {"ValueError"}

\* the exception classes _download_image_from_s3 lets through: the S3
\* client's ClientError, or any other Exception of the read and the decoding
ResolutionRaises == {"ClientError", "Exception"}

\* the exception classes ClipModel.predict raises: RuntimeError for a model
\* that is not loaded (line 43), ValueError for missing labels (line 46),
\* or any Exception of the network, re-raised as it is (lines 78-80)
InferenceRaises == {"RuntimeError", "ValueError", "Exception"}

\* what one _classify_single_image call may meet: the download raises, the
\* classifier raises, or the classifier returns a ranked list (probs is
\* the output of the CLIP network the list was made from)
ImageOutcomes(request) ==
    { [kind |-> "resolution_error", predictions |-> <<>>, probs |-> <<>>],
      [kind |-> "inference_error", predictions |-> <<>>, probs |-> <<>>] }
    \cup
    IF request.job_type = "image_classification"
    THEN { [kind |-> "ok", predictions |-> p, probs |-> <<>>] :
             p \in MobileNetReplies }
    ELSE { [kind |-> "ok",
            predictions |-> ClipPredict(Get(request.custom_labels), probs,
                                        request.top_k),
            probs |-> probs] : probs \in ClipProbs }

\* ------------------------------------------------------------------------
\* Batch classification engine
\* ------------------------------------------------------------------------

\* s3_key.split('/')[-1]
Filename(s3_key) == s3_key[Len(s3_key)]

\* _classify_single_image overriding a score equal to the threshold too
ImageResultInclusive(s3_key, predictions, confidence_threshold) ==
    LET below == predictions[1].score <= confidence_threshold
    IN [filename |-> Filename(s3_key),
        s3_key |-> s3_key,
        top_prediction |-> IF below THEN "unknown" ELSE predictions[1].label,
        top_confidence |-> predictions[1].score,
        all_predictions |-> predictions,
        reason |-> IF below
                   THEN Some([original |-> predictions[1].label,
                              score |-> predictions[1].score,
                              threshold |-> confidence_threshold])
                   ELSE None]

\* an override that renames the top entry of the ranked list as well
ImageResultRelabelsList(s3_key, predictions, confidence_threshold) ==
    LET below == predictions[1].score < confidence_threshold
    IN [filename |-> Filename(s3_key),
        s3_key |-> s3_key,
        top_prediction |-> IF below THEN "unknown" ELSE predictions[1].label,
        top_confidence |-> predictions[1].score,
        all_predictions |->
            IF below
            THEN [predictions EXCEPT ![1].label = "unknown"]
            ELSE predictions,
        reason |-> IF below
                   THEN Some([original |-> predictions[1].label,
                              score |-> predictions[1].score,
                              threshold |-> confidence_threshold])
                   ELSE None]

\* _classify_single_image, lines 84-106, on a non-empty ranked list
ImageResult(s3_key, predictions, confidence_threshold) ==
    LET below == predictions[1].score < confidence_threshold
    IN [filename |-> Filename(s3_key),
        s3_key |-> s3_key,
        top_prediction |-> IF below THEN "unknown" ELSE predictions[1].label,
        top_confidence |-> predictions[1].score,
        all_predictions |-> predictions,
        reason |-> IF below
                   THEN Some([original |-> predictions[1].label,
                              score |-> predictions[1].score,
                              threshold |-> confidence_threshold])
                   ELSE None]

\* grouping that assigns the list of a label instead of appending to it
GroupAddOverwrite(grouped, label, filename) ==
    IF \E k \in 1..Len(grouped) : grouped[k].label = label
    THEN [k \in 1..Len(grouped) |->
             IF grouped[k].label = label
             THEN [grouped[k] EXCEPT !.files = <<filename>>]
             ELSE grouped[k]]
    ELSE Append(grouped, [label |-> label, files |-> <<filename>>])

\* grouping that puts a label met for the first time before the others
GroupAddNewestFirst(grouped, label, filename) ==
    IF \E k \in 1..Len(grouped) : grouped[k].label = label
    THEN [k \in 1..Len(grouped) |->
             IF grouped[k].label = label
             THEN [grouped[k] EXCEPT !.files = Append(@, filename)]
             ELSE grouped[k]]
    ELSE <<[label |-> label, files |-> <<filename>>]>> \o grouped

\* grouped_by_label (a dict in insertion order) after lines 150-153
GroupAdd(grouped, label, filename) ==
    IF \E k \in 1..Len(grouped) : grouped[k].label = label
    THEN [k \in 1..Len(grouped) |->
             IF grouped[k].label = label
             THEN [grouped[k] EXCEPT !.files = Append(@, filename)]
             ELSE grouped[k]]
    ELSE Append(grouped, [label |-> label, files |-> <<filename>>])

\* a lookup that takes the first group, whatever its label
GroupGetFirst(grouped, label) ==
    IF grouped # <<>> THEN grouped[1].files ELSE <<>>

\* grouped_by_label.get("unknown", [])
GroupGet(grouped, label) ==
    IF \E k \in 1..Len(grouped) : grouped[k].label = label
    THEN (CHOOSE g \in {grouped[k] : k \in 1..Len(grouped)} :
              g.label = label).files
    ELSE <<>>

\* classify_batch, lines 157-187: the response built after the loop
ClassificationResponse(request, detailed_results, grouped_by_label) ==
    LET unknown_count == Len(GroupGet(grouped_by_label, "unknown"))
        classified_count == Len(detailed_results) - unknown_count
    IN [success |-> TRUE,
        job_id |-> request.job_id,
        job_type |-> request.job_type,
        model_used |-> IF request.job_type = "image_classification"
                       THEN "MobileNetV2" ELSE "CLIP",
        total_images |-> Len(detailed_results),
        grouped_by_label |-> grouped_by_label,
        detailed_results |-> detailed_results,
        summary |-> [total |-> Len(detailed_results),
                     classified |-> classified_count,
                     unknown |-> unknown_count]]

\* ------------------------------------------------------------------------
\* State
\* ------------------------------------------------------------------------

VARIABLES
    content,    \* request queue: message id -> the raw message enqueued
    queue,      \* request queue: message id -> "visible", "inflight", "deleted"
    shutdown,   \* SQSWorker.shutdown
    loop,       \* where worker_loop stands: "receive", "sleep", "gather",
                \* or "exited" once sys.exit ended the process
    messages,   \* worker_loop's messages: the ids of the batch, in order
    task,       \* one process_message task per entry of messages
    ready,      \* the event loop's ready queue: tasks to run, first in front
    running,    \* the task that holds the thread, 0 when none does
    count       \* request queue and status queue: message id -> how often
                \* the message was received and how many status sends were
                \* made for it; kept for the messages in its domain, which
                \* only the redelivery specification fills

vars ==
    <<content, queue, shutdown, loop, messages, task, ready, running, count>>

MsgIds == DOMAIN content

\* a process_message coroutine wrapped by gather, before its first step
NewTask(m) ==
    [pc |-> "created", msg |-> m, request |-> NoRequest, i |-> 0,
     detailed_results |-> <<>>, grouped_by_label |-> <<>>, result |-> None,
     error |-> "", sends |-> <<>>, deletes |-> <<>>,
     resolves |-> <<>>, predicts |-> <<>>, replies |-> <<>>]

Tasks == 1..Len(messages)

Body(t) == content[task[t].msg].Body

Finished(t) == task[t].pc \in {"done", "raised"}

\* the tasks whose process_message has started and not yet finished
InFlight == {t \in Tasks : task[t].pc \notin {"created", "done", "raised"}}

\* the ids of a set of messages in ascending order
RECURSIVE Ascending(_)
Ascending(S) ==
    IF S = {} THEN <<>>
    ELSE LET m == CHOOSE x \in S : \A y \in S : x <= y
         IN <<m>> \o Ascending(S \ {m})

\* the raw messages of the batch specification
CoreMessages(j) ==
    {Message(Some(j), b) : b \in CoreBodies(j)}
    \cup {Message(None, ValidImageBody(j))}

\* the raw messages of the single-message specification
AllMessages(j) ==
    {Message(rh, b) : rh \in {None, Some(j)}, b \in AllBodies(j)}

InitWorker ==
    /\ queue = [m \in DOMAIN content |-> "visible"]
    /\ shutdown = FALSE
    /\ loop = "receive"
    /\ messages = <<>>
    /\ task = <<>>
    /\ ready = <<>>
    /\ running = 0

\* NumMsgs messages wait on the request queue when the worker starts
Init ==
    /\ content \in {c \in [1..NumMsgs -> UNION {CoreMessages(j) : j \in 1..NumMsgs}] :
                        \A j \in 1..NumMsgs : c[j] \in CoreMessages(j)}
    /\ InitWorker
    /\ count = <<>>

\* one message of any shape waits on the request queue
InitMsg ==
    /\ content \in [{1} -> AllMessages(1)]
    /\ InitWorker
    /\ count = <<>>

\* one job that request construction accepts waits on the request queue
InitJob ==
    /\ content \in [{1} -> {Message(Some(1), b) : b \in JobBodies(1)}]
    /\ InitWorker
    /\ count = <<>>

\* one message of a core shape waits on the request queue, and the queues
\* count its receives and its status sends
InitRedeliver ==
    /\ content \in [{1} -> CoreMessages(1)]
    /\ InitWorker
    /\ count = [m \in {1} |-> [received |-> 0, sent |-> 0]]

\* ------------------------------------------------------------------------
\* Request queue and status queue (the SQS service)
\* ------------------------------------------------------------------------

Visible == {m \in MsgIds : queue[m] = "visible"}

\* the batches one receive_message call may return: up to BATCH_SIZE of the
\* visible messages
Batches == {S \in SUBSET Visible : S # {} /\ Cardinality(S) <= BATCH_SIZE}

\* the visibility timeout of a message that was received and not deleted
\* expires.  Only the next receive request reads visibility, so the expiry
\* is taken between the end of a batch and that request.
VisibilityTimeout(m) ==
    /\ loop = "receive"
    /\ queue[m] = "inflight"
    /\ queue' = [queue EXCEPT ![m] = "visible"]
    /\ UNCHANGED <<content, count, shutdown, loop, messages,
                   task, ready, running>>

\* ------------------------------------------------------------------------
\* worker_loop
\* ------------------------------------------------------------------------

\* count after the messages of S were handed out by the request queue
Received(S) ==
    [m \in DOMAIN count |->
        IF m \in S THEN [count[m] EXCEPT !.received = @ + 1] ELSE count[m]]

\* count after a status send was made for message m
Sent(m) ==
    [n \in DOMAIN count |->
        IF n = m THEN [count[n] EXCEPT !.sent = @ + 1] ELSE count[n]]

\* a worker_loop that remembers the messages it has processed and hands a
\* message it sees again to no process_message
ReceiveBatchOnce ==
    /\ loop = "receive"
    /\ ~shutdown
    /\ \E S \in Batches :
          /\ \A m \in S \cap DOMAIN count : count[m].received < MaxReceives
          /\ messages' = Ascending(S)
          /\ queue' = [m \in MsgIds |-> IF m \in S THEN "inflight" ELSE queue[m]]
          /\ count' = Received(S)
    /\ task' = [t \in 1..Len(messages') |->
                  IF /\ messages'[t] \in DOMAIN count
                     /\ count[messages'[t]].received >= 1
                  THEN [NewTask(messages'[t]) EXCEPT !.pc = "done"]
                  ELSE NewTask(messages'[t])]
    /\ ready' = [t \in 1..Len(messages') |-> t]
    /\ loop' = "gather"
    /\ UNCHANGED <<content, shutdown, running>>

\* lines 154-164 with a non-empty reply: one task per message is handed to
\* gather, and worker_loop waits (the request queue hands a message out at
\* most MaxReceives times where it counts)
ReceiveBatch ==
    /\ loop = "receive"
    /\ ~shutdown
    /\ \E S \in Batches :
          /\ \A m \in S \cap DOMAIN count : count[m].received < MaxReceives
          /\ messages' = Ascending(S)
          /\ queue' = [m \in MsgIds |-> IF m \in S THEN "inflight" ELSE queue[m]]
          /\ count' = Received(S)
    /\ task' = [t \in 1..Len(messages') |-> NewTask(messages'[t])]
    /\ ready' = [t \in 1..Len(messages') |-> t]
    /\ loop' = "gather"
    /\ UNCHANGED <<content, shutdown, running>>

\* a worker_loop that a failed receive request ends
ReceiveNoneExits ==
    /\ loop = "receive"
    /\ ~shutdown
    /\ messages' = <<>>
    /\ task' = <<>>
    /\ ready' = <<>>
    /\ loop' = "exited"
    /\ UNCHANGED <<content, count, queue, shutdown, running>>

\* lines 154-167 when receive_messages returns []: the request raised
\* (lines 146-148) or the reply held no message; worker_loop sleeps
ReceiveNone ==
    /\ loop = "receive"
    /\ ~shutdown
    /\ messages' = <<>>
    /\ task' = <<>>
    /\ ready' = <<>>
    /\ loop' = "sleep"
    /\ UNCHANGED <<content, count, queue, shutdown, running>>

\* line 167: asyncio.sleep(1) is over
SleepDone ==
    /\ loop = "sleep"
    /\ loop' = "receive"
    /\ UNCHANGED <<content, count, queue, shutdown, messages,
                   task, ready, running>>

\* gather that returns when the first task ended
GatherReturnsFirstCompleted == \E t \in Tasks : Finished(t)

\* gather without return_exceptions: the first exception of a task is
\* raised into worker_loop at once
GatherReturnsOnException ==
    \/ \E t \in Tasks : task[t].pc = "raised"
    \/ \A t \in Tasks : Finished(t)

\* gather(*tasks, return_exceptions=True) returns once every task ended
GatherReturns == \A t \in Tasks : Finished(t)

\* line 164: worker_loop resumes behind the await
GatherDone ==
    /\ loop = "gather"
    /\ running = 0
    /\ GatherReturns
    /\ loop' = "receive"
    /\ UNCHANGED <<content, count, queue, shutdown, messages,
                   task, ready, running>>

\* handle_shutdown, lines 173-178: the signal handler sets the flag and
\* sys.exit(0) ends the process wherever the main thread stands
HandleShutdown ==
    /\ loop # "exited"
    /\ shutdown' = TRUE
    /\ loop' = "exited"
    /\ UNCHANGED <<content, count, queue, messages, task, ready, running>>

\* ------------------------------------------------------------------------
\* process_message, one task of the event loop
\* ------------------------------------------------------------------------

\* an await that reaches the event loop (an executor call, a network await)
AwaitYieldsToLoop == TRUE

\* whether the await of classify_batch hands the thread back to the event
\* loop: _classify_single_image and what it calls never await anything
AwaitYields == FALSE

\* a task that acknowledges its message on receipt, before parsing it
TaskRunAckFirst(t) ==
    /\ loop = "gather"
    /\ running = 0
    /\ ready # <<>>
    /\ t = Head(ready)
    /\ ready' = Tail(ready)
    /\ IF task[t].pc # "created"
       THEN /\ running' = t
            /\ task' = task
       ELSE IF IsSome(content[task[t].msg].ReceiptHandle)
       THEN /\ running' = t
            /\ task' = [task EXCEPT
                  ![t].pc = "parse",
                  ![t].deletes =
                      Append(@, Get(content[task[t].msg].ReceiptHandle))]
       ELSE /\ running' = 0
            /\ task' = [task EXCEPT ![t].pc = "raised",
                                    ![t].error = "KeyError: ReceiptHandle"]
    /\ UNCHANGED <<content, count, queue, shutdown, loop, messages>>

\* a process_message that suspends once behind line 54 (an await that
\* reaches the event loop): the task goes to the end of the ready queue
TaskRunThenYield(t) ==
    /\ loop = "gather"
    /\ running = 0
    /\ ready # <<>>
    /\ t = Head(ready)
    /\ IF task[t].pc # "created"
       THEN /\ running' = t
            /\ ready' = Tail(ready)
            /\ task' = task
       ELSE IF IsSome(content[task[t].msg].ReceiptHandle)
       THEN /\ running' = 0
            /\ ready' = Append(Tail(ready), t)
            /\ task' = [task EXCEPT ![t].pc = "parse"]
       ELSE /\ running' = 0
            /\ ready' = Tail(ready)
            /\ task' = [task EXCEPT ![t].pc = "raised",
                                    ![t].error = "KeyError: ReceiptHandle"]
    /\ UNCHANGED <<content, count, queue, shutdown, loop, messages>>

\* the event loop runs the first ready task.  A new task executes line 54:
\* without a receipt handle the KeyError ends the task.
TaskRun(t) ==
    /\ loop = "gather"
    /\ running = 0
    /\ ready # <<>>
    /\ t = Head(ready)
    /\ ready' = Tail(ready)
    /\ IF task[t].pc # "created"
       THEN /\ running' = t
            /\ task' = task
       ELSE IF IsSome(content[task[t].msg].ReceiptHandle)
       THEN /\ running' = t
            /\ task' = [task EXCEPT ![t].pc = "parse"]
       ELSE /\ running' = 0
            /\ task' = [task EXCEPT ![t].pc = "raised",
                                    ![t].error = "KeyError: ReceiptHandle"]
    /\ UNCHANGED <<content, count, queue, shutdown, loop, messages>>

\* lines 58-70: the body is parsed and the request is built
Parse(t) ==
    /\ loop = "gather"
    /\ running = t
    /\ task[t].pc = "parse"
    /\ LET e == ParseError(Body(t))
       IN IF e = ""
          THEN task' = [task EXCEPT ![t].pc = "classify",
                                    ![t].request = ClassificationRequest(Body(t))]
          ELSE task' = [task EXCEPT ![t].pc = "except", ![t].error = e]
    /\ UNCHANGED <<content, count, queue, shutdown, loop,
                   messages, ready, running>>

\* a label check that tests for None only and lets an empty list pass
MissingLabelsNoneOnly(request) ==
    /\ request.job_type = "custom_classification"
    /\ ~IsSome(request.custom_labels)

\* classify_batch raises when a custom job carries no labels, lines 129-131
MissingLabels(request) ==
    /\ request.job_type = "custom_classification"
    /\ (~IsSome(request.custom_labels) \/ Get(request.custom_labels) = <<>>)

\* classify_batch, lines 125-135: entered from line 73
ClassifyBatch(t) ==
    /\ loop = "gather"
    /\ running = t
    /\ task[t].pc = "classify"
    /\ IF MissingLabels(task[t].request)
       THEN task' = [task EXCEPT
                ![t].pc = "except",
                ![t].error = "ValueError: custom_labels is required"]
       ELSE task' = [task EXCEPT ![t].pc = "image"]
    /\ UNCHANGED <<content, count, queue, shutdown, loop,
                   messages, ready, running>>

\* a loop that visits the keys from the last to the first
CurrentKeyReversed(tk) ==
    tk.request.s3_keys[Len(tk.request.s3_keys) - tk.i]

\* the key the loop of line 137 visits after tk.i images
CurrentKey(tk) == tk.request.s3_keys[tk.i + 1]

\* grouping under the classifier's label, whatever the threshold said
GroupLabelOriginal(result) == result.all_predictions[1].label

\* line 150: the label an image is grouped under
GroupLabel(result) == result.top_prediction

\* a loop that skips an image it cannot resolve or classify and goes on
AfterImageSkipFailed(tk, o) ==
    LET s3_key == CurrentKey(tk)
        called == [tk EXCEPT !.resolves = Append(@, s3_key),
                             !.replies = Append(@, o)]
        predicted == [called EXCEPT !.predicts = Append(@, s3_key)]
    IN CASE o.kind = "resolution_error" ->
              [called EXCEPT !.i = @ + 1, !.error = "ResolutionError"]
         [] o.kind = "inference_error" ->
              [predicted EXCEPT !.i = @ + 1, !.error = "InferenceError"]
         [] o.kind = "ok" /\ o.predictions = <<>> ->
              [predicted EXCEPT !.i = @ + 1,
                                !.error = "IndexError: list index out of range"]
         [] OTHER ->
              LET result == ImageResult(s3_key, o.predictions,
                                        tk.request.confidence_threshold)
              IN [predicted EXCEPT
                     !.i = @ + 1,
                     !.detailed_results = Append(@, result),
                     !.grouped_by_label =
                         GroupAdd(@, GroupLabel(result), result.filename)]

\* the task after one turn of the loop of lines 137-153 with outcome o
AfterImage(tk, o) ==
    LET s3_key == CurrentKey(tk)
        called == [tk EXCEPT !.resolves = Append(@, s3_key),
                             !.replies = Append(@, o)]
        predicted == [called EXCEPT !.predicts = Append(@, s3_key)]
    IN CASE o.kind = "resolution_error" ->
              [called EXCEPT !.pc = "except", !.error = "ResolutionError"]
         [] o.kind = "inference_error" ->
              [predicted EXCEPT !.pc = "except", !.error = "InferenceError"]
         [] o.kind = "ok" /\ o.predictions = <<>> ->
              [predicted EXCEPT !.pc = "except",
                                !.error = "IndexError: list index out of range"]
         [] OTHER ->
              LET result == ImageResult(s3_key, o.predictions,
                                        tk.request.confidence_threshold)
              IN [predicted EXCEPT
                     !.i = @ + 1,
                     !.detailed_results = Append(@, result),
                     !.grouped_by_label =
                         GroupAdd(@, GroupLabel(result), result.filename)]

\* one image of the job: _classify_single_image and lines 147-153
ClassifySingleImage(t) ==
    /\ loop = "gather"
    /\ running = t
    /\ task[t].pc = "image"
    /\ task[t].i < Len(task[t].request.s3_keys)
    /\ \E o \in ImageOutcomes(task[t].request) :
          task' = [task EXCEPT ![t] = AfterImage(task[t], o)]
    /\ IF AwaitYields
       THEN running' = 0 /\ ready' = Append(ready, t)
       ELSE UNCHANGED <<running, ready>>
    /\ UNCHANGED <<content, count, queue, shutdown, loop, messages>>

\* classify_batch returning from inside the loop, after any image
ClassifyBatchReturnEarly(t) ==
    /\ loop = "gather"
    /\ running = t
    /\ task[t].pc = "image"
    /\ task[t].i >= 1
    /\ task' = [task EXCEPT
          ![t].pc = "send",
          ![t].result = Some(ClassificationResponse(task[t].request,
                                 task[t].detailed_results,
                                 task[t].grouped_by_label))]
    /\ UNCHANGED <<content, count, queue, shutdown, loop,
                   messages, ready, running>>

\* lines 155-187: every image is done and classify_batch returns
ClassifyBatchReturn(t) ==
    /\ loop = "gather"
    /\ running = t
    /\ task[t].pc = "image"
    /\ task[t].i = Len(task[t].request.s3_keys)
    /\ task' = [task EXCEPT
          ![t].pc = "send",
          ![t].result = Some(ClassificationResponse(task[t].request,
                                 task[t].detailed_results,
                                 task[t].grouped_by_label))]
    /\ UNCHANGED <<content, count, queue, shutdown, loop,
                   messages, ready, running>>

\* send_status_update without its try/except: a failed request raises into
\* the caller
SendStatusUpdateRaises(t, status_message, ok, next) ==
    /\ task' = [task EXCEPT
          ![t].pc = IF ok THEN next ELSE "except",
          ![t].error = IF ok THEN @ ELSE "ClientError: send_message",
          ![t].sends = Append(@, [message |-> status_message, ok |-> ok])]
    /\ count' = Sent(task[t].msg)

\* send_status_update repeating a request the status queue refused
SendStatusUpdateTwice(t, status_message, ok, next) ==
    /\ task' = [task EXCEPT
          ![t].pc = next,
          ![t].sends =
              IF ok
              THEN Append(@, [message |-> status_message, ok |-> TRUE])
              ELSE @ \o << [message |-> status_message, ok |-> FALSE],
                           [message |-> status_message, ok |-> TRUE] >>]
    /\ count' = [n \in DOMAIN count |->
                    IF n = task[t].msg
                    THEN [count[n] EXCEPT !.sent = @ + (IF ok THEN 1 ELSE 2)]
                    ELSE count[n]]

\* send_status_update, lines 114-123: the send request is made; the status
\* queue takes the message (ok) or the request raises, which is logged.
\* sends keeps every request of the task with its outcome.
SendStatusUpdate(t, status_message, ok, next) ==
    /\ task' = [task EXCEPT
          ![t].pc = next,
          ![t].sends = Append(@, [message |-> status_message, ok |-> ok])]
    /\ count' = Sent(task[t].msg)

\* delete_message, lines 125-133: the delete request is made; the request
\* queue removes the message (ok) or the request raises, which is logged
DeleteMessage(t, receipt_handle, ok) ==
    /\ task' = [task EXCEPT ![t].pc = "done",
                            ![t].deletes = Append(@, receipt_handle)]
    /\ queue' = IF ok THEN [queue EXCEPT ![receipt_handle] = "deleted"]
                ELSE queue

\* the receipt handle read at line 54
ReceiptHandle(t) == Get(content[task[t].msg].ReceiptHandle)

\* a completed status that names the job of a shared "current request"
CompletedStatusShared(b, result) ==
    [job_id |-> task[1].request.job_id, status |-> "completed",
     result |-> result]

\* the completed status of lines 76-80
CompletedStatus(b, result) ==
    [job_id |-> Get(b.job_id), status |-> "completed", result |-> result]

\* the success path with lines 82 and 85 swapped: delete, then send
SendCompletedAfterDelete(t) ==
    /\ loop = "gather"
    /\ running = t
    /\ task[t].pc = "send"
    /\ task' = [task EXCEPT ![t].pc = "delete",
                            ![t].deletes = Append(@, ReceiptHandle(t))]
    /\ UNCHANGED <<content, count, queue, shutdown, loop,
                   messages, ready, running>>

\* lines 75-82: the completed status is sent
SendCompleted(t) ==
    /\ loop = "gather"
    /\ running = t
    /\ task[t].pc = "send"
    /\ \E ok \in BOOLEAN :
          SendStatusUpdate(t, CompletedStatus(Body(t), Get(task[t].result)),
                           ok, "delete")
    /\ UNCHANGED <<content, queue, shutdown, loop, messages, ready, running>>

\* the success path deleting only a message whose status was accepted
DeleteProcessedIfSent(t) ==
    /\ loop = "gather"
    /\ running = t
    /\ task[t].pc = "delete"
    /\ IF task[t].sends[1].ok
       THEN \E ok \in BOOLEAN : DeleteMessage(t, ReceiptHandle(t), ok)
       ELSE task' = [task EXCEPT ![t].pc = "done"] /\ queue' = queue
    /\ running' = 0
    /\ UNCHANGED <<content, count, shutdown, loop, messages, ready>>

\* lines 84-87: the message is deleted and process_message returns
DeleteProcessed(t) ==
    /\ loop = "gather"
    /\ running = t
    /\ task[t].pc = "delete"
    /\ \E ok \in BOOLEAN : DeleteMessage(t, ReceiptHandle(t), ok)
    /\ running' = 0
    /\ UNCHANGED <<content, count, shutdown, loop, messages, ready>>

\* the handler without its inner try/except: an exception raised while the
\* failed status is built escapes process_message
SendFailedUnguarded(t) ==
    /\ loop = "gather"
    /\ running = t
    /\ task[t].pc = "except"
    /\ LET status_message == FailureStatus(Body(t), task[t].error)
       IN IF IsSome(status_message)
          THEN /\ \E ok \in BOOLEAN :
                    SendStatusUpdate(t, Get(status_message), ok,
                                     "delete_failed")
               /\ running' = running
          ELSE /\ task' = [task EXCEPT ![t].pc = "raised"]
               /\ count' = count
               /\ running' = 0
    /\ UNCHANGED <<content, queue, shutdown, loop, messages, ready>>

\* lines 89-109: the handler builds the failed status and sends it, or
\* fails to build it and sends nothing
SendFailed(t) ==
    /\ loop = "gather"
    /\ running = t
    /\ task[t].pc = "except"
    /\ LET status_message == FailureStatus(Body(t), task[t].error)
       IN IF IsSome(status_message)
          THEN \E ok \in BOOLEAN :
                  SendStatusUpdate(t, Get(status_message), ok, "delete_failed")
          ELSE /\ task' = [task EXCEPT ![t].pc = "delete_failed"]
               /\ count' = count
    /\ UNCHANGED <<content, queue, shutdown, loop, messages, ready, running>>

\* the handler without lines 111-112: the failed message stays on the queue
DeleteFailedSkipped(t) ==
    /\ loop = "gather"
    /\ running = t
    /\ task[t].pc = "delete_failed"
    /\ task' = [task EXCEPT ![t].pc = "done"]
    /\ running' = 0
    /\ UNCHANGED <<content, count, queue, shutdown, loop, messages, ready>>

\* lines 111-112: the message is deleted and process_message returns
DeleteFailed(t) ==
    /\ loop = "gather"
    /\ running = t
    /\ task[t].pc = "delete_failed"
    /\ \E ok \in BOOLEAN : DeleteMessage(t, ReceiptHandle(t), ok)
    /\ running' = 0
    /\ UNCHANGED <<content, count, shutdown, loop, messages, ready>>

\* ------------------------------------------------------------------------
\* main.py: the direct invocation path, POST /classify
\* ------------------------------------------------------------------------

\* the validation FastAPI runs on the JSON body of POST /classify against
\* the ClassificationRequest schema: "" when the body is accepted
DirectRequestError(b) ==
    IF b.kind # "object" THEN "body is not a JSON object"
    ELSE IF \/ ~IsSome(b.job_id) \/ ~IsSome(b.job_type)
            \/ ~IsSome(b.s3_bucket) \/ ~IsSome(b.s3_keys)
    THEN "field required"
    ELSE IF Get(b.job_type) \notin JobTypes THEN "not a valid JobType"
    ELSE IF Get(b.job_id) = NullJobId THEN "job_id: none is not an allowed value"
    ELSE IF IsSome(b.top_k) /\ Get(b.top_k) \notin MinTopK..MaxTopK
    THEN "top_k out of range"
    ELSE IF /\ IsSome(b.confidence_threshold)
            /\ Get(b.confidence_threshold) \notin MinThreshold..MaxThreshold
    THEN "confidence_threshold out of range"
    ELSE ""

\* the request the schema builds from an accepted body, with its defaults
DirectRequest(b) ==
    [job_id |-> Get(b.job_id),
     job_type |-> Get(b.job_type),
     s3_bucket |-> Get(b.s3_bucket),
     s3_keys |-> Get(b.s3_keys),
     custom_labels |-> b.custom_labels,
     top_k |-> IF IsSome(b.top_k) THEN Get(b.top_k) ELSE DefaultTopK,
     confidence_threshold |->
         IF IsSome(b.confidence_threshold)
         THEN Get(b.confidence_threshold) ELSE DefaultThreshold]

RECURSIVE EngineRun(_, _)
\* the loop of lines 137-153 of classify_batch run on the collaborator
\* replies, one per image, until one of them raises
EngineRun(tk, replies) ==
    IF replies = <<>> \/ tk.pc = "except" THEN tk
    ELSE EngineRun(AfterImage(tk, Head(replies)), Tail(replies))

\* classify, main.py lines 99-114: the HTTP response to a body when the
\* collaborators answer with replies
Classify(b, replies) ==
    IF DirectRequestError(b) # ""
    THEN [status_code |-> 422, body |-> None, detail |-> DirectRequestError(b)]
    ELSE LET request == DirectRequest(b)
             call == [NewTask(0) EXCEPT !.request = request, !.pc = "image"]
             tk == EngineRun(call, replies)
         IN IF MissingLabels(request)
            THEN [status_code |-> 500, body |-> None,
                  detail |-> "ValueError: custom_labels is required"]
            ELSE IF tk.pc = "except"
            THEN [status_code |-> 500, body |-> None, detail |-> tk.error]
            ELSE [status_code |-> 200,
                  body |-> Some(ClassificationResponse(request,
                                    tk.detailed_results, tk.grouped_by_label)),
                  detail |-> ""]

\* ------------------------------------------------------------------------
\* main.py: the worker thread of the application
\* ------------------------------------------------------------------------

\* the keyword parameters of SQSWorker.__init__ (sqs_worker.py, line 25:
\* it takes self only)
SQSWorkerInitKeywords == {}

\* the keywords run_sqs_worker passes to SQSWorker (line 41)
RunSqsWorkerKeywords == {"use_signal_handlers"}

\* whether SQSWorker.start may register its signal handlers (sqs_worker.py,
\* lines 183-184): signal.signal raises ValueError outside the main thread,
\* and run_sqs_worker is the target of a threading.Thread
SignalAllowed(thread) == thread = "main"

\* the application process before its startup event
InitApp ==
    /\ content \in {c \in [1..NumMsgs -> UNION {CoreMessages(j) : j \in 1..NumMsgs}] :
                        \A j \in 1..NumMsgs : c[j] \in CoreMessages(j)}
    /\ queue = [m \in DOMAIN content |-> "visible"]
    /\ shutdown = FALSE
    /\ loop = "startup"
    /\ messages = <<>>
    /\ task = <<>>
    /\ ready = <<>>
    /\ running = 0
    /\ count = <<>>

\* startup_event, lines 55-56: the daemon thread is created and started
StartupEvent ==
    /\ loop = "startup"
    /\ loop' = "thread_started"
    /\ UNCHANGED <<content, count, queue, shutdown, messages,
                   task, ready, running>>

\* run_sqs_worker, lines 30-47: the worker is constructed and started; an
\* exception of either is logged and the thread ends
RunSqsWorker ==
    /\ loop = "thread_started"
    /\ loop' = IF /\ RunSqsWorkerKeywords \subseteq SQSWorkerInitKeywords
                  /\ SignalAllowed("worker_thread")
               THEN "receive"
               ELSE "thread_ended"
    /\ UNCHANGED <<content, count, queue, shutdown, messages,
                   task, ready, running>>

\* startup_event, lines 58-64: after its pause the thread is not alive;
\* the warning is logged and the application serves without a worker
StartupDone ==
    /\ loop = "thread_ended"
    /\ loop' = "no_worker"
    /\ UNCHANGED <<content, count, queue, shutdown, messages,
                   task, ready, running>>

\* ------------------------------------------------------------------------
\* Specifications
\* ------------------------------------------------------------------------

Next ==
    \/ ReceiveBatch
    \/ ReceiveNone
    \/ SleepDone
    \/ GatherDone
    \/ HandleShutdown
    \/ \E m \in MsgIds : VisibilityTimeout(m)
    \/ \E t \in Tasks : TaskRun(t)
    \/ \E t \in Tasks : Parse(t)
    \/ \E t \in Tasks : ClassifyBatch(t)
    \/ \E t \in Tasks : ClassifySingleImage(t)
    \/ \E t \in Tasks : ClassifyBatchReturn(t)
    \/ \E t \in Tasks : SendCompleted(t)
    \/ \E t \in Tasks : DeleteProcessed(t)
    \/ \E t \in Tasks : SendFailed(t)
    \/ \E t \in Tasks : DeleteFailed(t)

\* the worker with NumMsgs messages of the core shapes on the queue
Spec == Init /\ [][Next]_vars

\* the steps of the application around its worker thread
NextApp ==
    \/ StartupEvent
    \/ RunSqsWorker
    \/ StartupDone

\* the application from its startup, with NumMsgs messages on the request
\* queue; a thread that was started runs
SpecApp == InitApp /\ [][NextApp]_vars /\ WF_vars(NextApp)

\* the worker with one message on queues that count receives and sends
SpecRedeliver == InitRedeliver /\ [][Next]_vars

\* the worker with one message of any shape on the queue
SpecMsg == InitMsg /\ [][Next]_vars

\* the worker with one accepted job of any key list on the queue
SpecJob == InitJob /\ [][Next]_vars

\* a step of the event loop on the worker's side: gather returns, or the
\* task the loop is running takes its next step. process_message has no
\* await that suspends on anything but the loop itself and the collaborator
\* calls return, so the step that is enabled is eventually taken.
WorkerStep ==
    \/ GatherDone
    \/ \E t \in DOMAIN task :
          \/ TaskRun(t) \/ Parse(t) \/ ClassifyBatch(t)
          \/ ClassifySingleImage(t) \/ ClassifyBatchReturn(t)
          \/ SendCompleted(t) \/ DeleteProcessed(t)
          \/ SendFailed(t) \/ DeleteFailed(t)

\* a step of worker_loop outside a batch: the receive request returns, with
\* messages or without, or the pause is over
PollStep == ReceiveBatch \/ ReceiveNone \/ SleepDone

\* the worker of Spec on an event loop that keeps running its tasks and a
\* worker_loop that keeps polling
SpecFair ==
    Init /\ [][Next]_vars /\ WF_vars(WorkerStep) /\ WF_vars(PollStep)

\* ------------------------------------------------------------------------
\* Properties
\* ------------------------------------------------------------------------

HasReceipt(t) == IsSome(content[task[t].msg].ReceiptHandle)

\* the retry_count of a body can be compared with 1 (line 98)
RetryComparable(b) ==
    ~IsSome(b.retry_count) \/ Get(b.retry_count)[1] = "int"

\* every process_message of the batch has ended
CycleEnded == Tasks # {} /\ \A t \in Tasks : Finished(t)

\* C1: a message that carries a receipt handle never ends process_message
\* by an escaping exception, and when process_message has returned, one
\* delete request for that receipt handle has been issued -- whatever
\* happened to parsing, validation, classification and the status send.
C1_DeleteBeforeReturn ==
    \A t \in Tasks :
        HasReceipt(t) =>
            /\ task[t].pc # "raised"
            /\ task[t].pc = "done" => task[t].deletes = <<ReceiptHandle(t)>>

\* C1 witness: a job failed, its failed status was refused by the status
\* queue, and the delete request was issued all the same
C1_Witness ==
    \E t \in Tasks :
        /\ task[t].pc = "done"
        /\ task[t].error # ""
        /\ Len(task[t].sends) = 1 /\ ~task[t].sends[1].ok
        /\ task[t].deletes = <<ReceiptHandle(t)>>

\* C2 as stated: at the end of a receive cycle every message of the batch
\* has caused exactly one status send and exactly one delete request.
C2_OneStatusOneDeleteEach ==
    CycleEnded =>
        \A t \in Tasks : Len(task[t].sends) = 1 /\ Len(task[t].deletes) = 1

\* the worker can name the job of the message in a status: the body is a
\* JSON object with a job_id and, where the job failed, its retry_count
\* can be compared with 1
Reportable(t) ==
    /\ Body(t).kind = "object"
    /\ IsSome(Body(t).job_id)
    /\ (IsSome(task[t].result) \/ RetryComparable(Body(t)))

\* C2 amended: at the end of a receive cycle every message of the batch
\* that carries a receipt handle has caused exactly one delete request and
\* at most one status send, which is terminal: exactly one when the worker
\* can name the job, none otherwise.  A message without a receipt handle
\* has caused neither.
C2_OneDeleteAtMostOneStatus ==
    CycleEnded =>
        \A t \in Tasks :
            IF HasReceipt(t)
            THEN /\ task[t].deletes = <<ReceiptHandle(t)>>
                 /\ Len(task[t].sends) = (IF Reportable(t) THEN 1 ELSE 0)
                 /\ \A k \in 1..Len(task[t].sends) :
                       task[t].sends[k].message.status
                           = (IF IsSome(task[t].result)
                              THEN "completed" ELSE "failed")
            ELSE task[t].deletes = <<>> /\ task[t].sends = <<>>

\* C2 witness: a batch of two ended, one message completed and one failed,
\* each with its status send and its delete request
C2_Witness ==
    /\ CycleEnded
    /\ \E t, u \in Tasks :
          /\ IsSome(task[t].result) /\ Len(task[t].sends) = 1
          /\ task[u].error # "" /\ Len(task[u].sends) = 1
          /\ Len(task[t].deletes) = 1 /\ Len(task[u].deletes) = 1

Range(f) == {f[k] : k \in DOMAIN f}

\* the result r is built from the keys, labels, top_k and threshold of body b
OwnResult(b, r) ==
    /\ r.job_id = Get(b.job_id)
    /\ r.job_type = Get(b.job_type)
    /\ [k \in 1..Len(r.detailed_results) |-> r.detailed_results[k].s3_key]
           = Get(b.s3_keys)
    /\ \A k \in 1..Len(r.detailed_results) :
          LET d == r.detailed_results[k]
              threshold == GetOr(b.confidence_threshold, DefaultThreshold)
          IN /\ Len(d.all_predictions) <= GetOr(b.top_k, DefaultTopK)
             /\ Get(b.job_type) = "custom_classification" =>
                   \A p \in Range(d.all_predictions) :
                       p.label \in Range(Get(b.custom_labels))
             /\ IsSome(d.reason) <=> d.top_confidence < threshold
             /\ IsSome(d.reason) => Get(d.reason).threshold = threshold

\* C3: every status a task sends names the job of its own message, a
\* completed status carries a result built from that job's own keys,
\* labels, top_k and threshold, and every delete request uses the receipt
\* handle of the task's own message -- in every reachable state, so under
\* every order in which the event loop runs the tasks of a batch.
C3_NoCrossContamination ==
    \A t \in Tasks :
        /\ \A k \in 1..Len(task[t].sends) :
              LET m == task[t].sends[k].message
              IN /\ Body(t).job_id = Some(m.job_id)
                 /\ m.status = "completed" => OwnResult(Body(t), m.result)
        /\ \A k \in 1..Len(task[t].deletes) :
              content[task[t].msg].ReceiptHandle = Some(task[t].deletes[k])

\* C3 witness: two jobs of one batch completed, each with its own status
C3_Witness ==
    \E t, u \in Tasks :
        /\ t # u
        /\ task[t].pc = "done" /\ task[u].pc = "done"
        /\ IsSome(task[t].result) /\ IsSome(task[u].result)
        /\ Len(task[t].sends) = 1 /\ Len(task[u].sends) = 1
        /\ task[t].request.s3_keys # task[u].request.s3_keys

\* C4 as stated: a message whose body cannot be parsed has, when
\* process_message returns, caused exactly one failed status send and the
\* delete request, and no classifier or image-source call.
C4_UnparsableOneFailedStatus ==
    \A t \in Tasks :
        (HasReceipt(t) /\ Body(t).kind = "unparsable" /\ task[t].pc = "done")
        => /\ Len(task[t].sends) = 1
           /\ task[t].sends[1].message.status = "failed"
           /\ task[t].deletes = <<ReceiptHandle(t)>>
           /\ task[t].resolves = <<>> /\ task[t].predicts = <<>>

\* C4 amended: a message whose body cannot be parsed causes no status send
\* at all (the handler parses the body again to build the failed status,
\* which raises), no classifier and no image-source call, and when
\* process_message returns the delete request has been issued.
C4_UnparsableNoStatusDeleted ==
    \A t \in Tasks :
        (HasReceipt(t) /\ Body(t).kind = "unparsable")
        => /\ task[t].sends = <<>>
           /\ task[t].resolves = <<>> /\ task[t].predicts = <<>>
           /\ task[t].result = None
           /\ task[t].pc = "done" => task[t].deletes = <<ReceiptHandle(t)>>

\* C4 witness: process_message returned for an unparsable body
C4_Witness ==
    \E t \in Tasks :
        /\ Body(t).kind = "unparsable"
        /\ task[t].pc = "done"
        /\ task[t].error = "JSONDecodeError"
        /\ task[t].deletes = <<ReceiptHandle(t)>>

\* the body is a JSON object with a job_id that fails job validation: an
\* unknown job_type, top_k outside 1..10, confidence_threshold outside
\* 0.0..1.0, a missing required field other than job_id, or a custom job
\* with no labels
InvalidJob(b) ==
    /\ b.kind = "object"
    /\ IsSome(b.job_id)
    /\ \/ ~IsSome(b.job_type) \/ ~IsSome(b.s3_bucket) \/ ~IsSome(b.s3_keys)
       \/ Get(b.job_type) \notin JobTypes
       \/ (IsSome(b.top_k) /\ Get(b.top_k) \notin MinTopK..MaxTopK)
       \/ (IsSome(b.confidence_threshold)
             /\ Get(b.confidence_threshold) \notin MinThreshold..MaxThreshold)
       \/ /\ b.job_type = Some("custom_classification")
          /\ b.custom_labels \in {None, Some(<<>>)}

\* the errors a job validation raises
ValidationErrors ==
    {"KeyError: job_type", "KeyError: s3_bucket", "KeyError: s3_keys",
     "ValueError: not a valid JobType", "ValidationError",
     "ValueError: custom_labels is required"}

\* task t has sent one failed status for its own job carrying its error,
\* and nothing else
SentOwnFailure(t) ==
    /\ Len(task[t].sends) = 1
    /\ task[t].sends[1].message.status = "failed"
    /\ Some(task[t].sends[1].message.job_id) = Body(t).job_id
    /\ task[t].sends[1].message.error.text = task[t].error

\* what C5 promises of the task of an invalid job
RejectedOnce(t) ==
    /\ task[t].predicts = <<>>
    /\ task[t].result = None
    /\ task[t].pc \in {"parse", "classify", "except", "delete_failed", "done"}
    /\ task[t].deletes # <<>> => task[t].sends # <<>>
    /\ task[t].pc \in {"delete_failed", "done"} =>
          SentOwnFailure(t) /\ task[t].error \in ValidationErrors
    /\ task[t].pc = "done" => task[t].deletes = <<ReceiptHandle(t)>>

\* C5: a message whose body is valid JSON with a job_id and fails job
\* validation gets one failed status for that job_id carrying the
\* validation error, then the delete request, with no classifier call, and
\* is not processed again.
C5_InvalidJobFailedStatus ==
    \A t \in Tasks :
        (HasReceipt(t) /\ task[t].pc # "created" /\ InvalidJob(Body(t)))
        => RejectedOnce(t)

\* The statement of C5 for the bodies whose retry_count is absent or a
\* number: there the failed status is built and sent.
C5_InvalidJobFailedStatusRetry ==
    \A t \in Tasks :
        (/\ HasReceipt(t) /\ task[t].pc # "created"
         /\ InvalidJob(Body(t)) /\ RetryComparable(Body(t)))
        => RejectedOnce(t)

\* an out-of-range top_k was reported and the message deleted
InvalidJobReported ==
    \E t \in Tasks :
        /\ Body(t).top_k = Some(11)
        /\ task[t].pc = "done"
        /\ SentOwnFailure(t)
        /\ task[t].error = "ValidationError"
        /\ task[t].deletes = <<ReceiptHandle(t)>>

\* C6: once classify_batch has returned a result, the task sends one
\* completed status with that result and the job_id of the message, and
\* issues the delete request only after the send was attempted.
C6_CompletedThenDelete ==
    \A t \in Tasks :
        IsSome(task[t].result) =>
            \/ /\ task[t].pc = "send"
               /\ task[t].sends = <<>> /\ task[t].deletes = <<>>
            \/ /\ task[t].pc \in {"delete", "done"}
               /\ Len(task[t].sends) = 1
               /\ task[t].sends[1].message =
                     [job_id |-> Get(Body(t).job_id), status |-> "completed",
                      result |-> Get(task[t].result)]
               /\ task[t].deletes =
                     (IF task[t].pc = "done" THEN <<ReceiptHandle(t)>> ELSE <<>>)

\* C6 witness: a job of two images completed, was reported and deleted
C6_Witness ==
    \E t \in Tasks :
        /\ task[t].pc = "done"
        /\ IsSome(task[t].result)
        /\ Get(task[t].result).total_images = 2
        /\ task[t].sends[1].ok
        /\ task[t].deletes = <<ReceiptHandle(t)>>

\* classify_batch raised for the request of task t
ClassifyRaised(t) ==
    /\ task[t].request # NoRequest
    /\ task[t].pc \in {"except", "delete_failed", "done"}
    /\ task[t].result = None

\* what C7 promises of a task whose classify_batch raised
FailureReportedOnce(t) ==
    /\ task[t].deletes # <<>> => task[t].sends # <<>>
    /\ task[t].pc \in {"delete_failed", "done"} => SentOwnFailure(t)
    /\ task[t].pc = "done" => task[t].deletes = <<ReceiptHandle(t)>>
    /\ task[t].resolves
          = SubSeq(task[t].request.s3_keys, 1, Len(task[t].resolves))
    /\ task[t].predicts
          = SubSeq(task[t].request.s3_keys, 1, Len(task[t].predicts))

\* C7: when classify_batch raises for a parsed job, the worker sends a
\* failed status with the job_id and the error text and then issues the
\* delete request; no image of the job is resolved or classified a second
\* time.
C7_ClassifyErrorFailedStatus ==
    \A t \in Tasks : ClassifyRaised(t) => FailureReportedOnce(t)

\* The statement of C7 for the bodies whose retry_count is absent or a
\* number: there the failed status is built and sent.
C7_ClassifyErrorFailedStatusRetry ==
    \A t \in Tasks :
        (ClassifyRaised(t) /\ RetryComparable(Body(t)))
        => FailureReportedOnce(t)

\* the second image of a job could not be classified; the job was
\* reported failed and its message deleted
ClassifyErrorReported ==
    \E t \in Tasks :
        /\ task[t].pc = "done"
        /\ task[t].error = "InferenceError"
        /\ Len(task[t].detailed_results) = 1
        /\ SentOwnFailure(t)
        /\ task[t].deletes = <<ReceiptHandle(t)>>

\* C8: a status send that failed is the only send of its task, is followed
\* by the delete request, and process_message returns normally; on the
\* completed path it does not lead into the failure handler.
C8_SendFailureStillDeletes ==
    \A t \in Tasks :
        (task[t].sends # <<>> /\ ~task[t].sends[1].ok) =>
            /\ Len(task[t].sends) = 1
            /\ task[t].pc \in
                  (IF task[t].sends[1].message.status = "completed"
                   THEN {"delete", "done"} ELSE {"delete_failed", "done"})
            /\ task[t].sends[1].message.status = "completed" =>
                  task[t].error = ""
            /\ task[t].pc = "done" => task[t].deletes = <<ReceiptHandle(t)>>

\* C8 witness: the completed status was refused, and the message deleted
C8_Witness ==
    \E t \in Tasks :
        /\ task[t].pc = "done"
        /\ Len(task[t].sends) = 1
        /\ task[t].sends[1].message.status = "completed"
        /\ ~task[t].sends[1].ok
        /\ task[t].deletes = <<ReceiptHandle(t)>>

\* C9: at most MAX_WORKERS process_message calls are started and not yet
\* finished, also in a batch of more than MAX_WORKERS messages.
C9_InFlightBounded == Cardinality(InFlight) <= MAX_WORKERS

\* C9 witness: a batch larger than MAX_WORKERS with its last task in flight
C9_Witness ==
    /\ Len(messages) > MAX_WORKERS
    /\ Len(messages) \in InFlight

\* C10: a receive request is issued only when every process_message of the
\* batch received before it has finished.
C10_DrainedBeforeReceive ==
    [][(loop = "receive" /\ loop' \in {"gather", "sleep"})
          => \A t \in Tasks : Finished(t)]_vars

\* C10 witness: a batch was processed (a message is deleted) and the next
\* receive request returned a fresh batch
C10_Witness ==
    /\ loop = "gather"
    /\ Tasks # {}
    /\ \A t \in Tasks : task[t].pc = "created"
    /\ \E m \in MsgIds : queue[m] = "deleted"

\* C11: once the shutdown signal is handled, every process_message that
\* was in flight has run to its end (status send attempted, delete request
\* issued) before the worker exits; no receive request follows.
C11_ShutdownCooperative ==
    loop = "exited" => (shutdown /\ InFlight = {})

\* process_message of task t has attempted to parse the body and failed
ParseFailed(t) ==
    /\ task[t].pc \notin {"created", "parse", "raised"}
    /\ ParseError(Body(t)) # ""

\* C12: a delete request is issued only for a message that reached
\* Completed (classify_batch returned) or Failed (an error was caught),
\* never for one that is still Received, Parsing or Processing; and a
\* message whose parsing failed never starts classification.
C12_MessageStateMachine ==
    \A t \in Tasks :
        /\ task[t].pc \in {"created", "parse", "classify", "image"} =>
              task[t].deletes = <<>>
        /\ task[t].deletes # <<>> =>
              /\ task[t].pc = "done"
              /\ IsSome(task[t].result) \/ task[t].error # ""
        /\ ParseFailed(t) =>
              /\ task[t].pc \in {"except", "delete_failed", "done"}
              /\ task[t].resolves = <<>> /\ task[t].predicts = <<>>
              /\ task[t].result = None

\* C12 witness: a job with an out-of-range top_k went from parsing to
\* Failed to Acknowledged without any classification
C12_Witness ==
    \E t \in Tasks :
        /\ ParseFailed(t)
        /\ task[t].error = "ValidationError"
        /\ task[t].pc = "done"
        /\ task[t].deletes = <<ReceiptHandle(t)>>

\* C13: in every result classify_batch returns, detailed_results has one
\* entry per key of the job, summary.total and total_images are that
\* number, and classified + unknown = total.
C13_CountsAgree ==
    \A t \in Tasks :
        IsSome(task[t].result) =>
            LET r == Get(task[t].result)
            IN /\ Len(r.detailed_results) = Len(Get(Body(t).s3_keys))
               /\ r.summary.total = Len(r.detailed_results)
               /\ r.total_images = Len(r.detailed_results)
               /\ r.summary.classified + r.summary.unknown = r.summary.total

\* C13 witness: a job of MaxKeys images returned with classified and
\* unknown images
C13_Witness ==
    \E t \in Tasks :
        /\ IsSome(task[t].result)
        /\ Get(task[t].result).summary.total = MaxKeys
        /\ Get(task[t].result).summary.unknown >= 1
        /\ Get(task[t].result).summary.classified >= 1

\* C14: an image result whose top_confidence is below the threshold of
\* its job has top_prediction "unknown" and a reason naming the original
\* label; any other (a score equal to the threshold included) has no
\* reason and the classifier's top label.
C14_ThresholdOverride ==
    \A t \in Tasks :
        \A k \in 1..Len(task[t].detailed_results) :
            LET d == task[t].detailed_results[k]
                threshold ==
                    GetOr(Body(t).confidence_threshold, DefaultThreshold)
                original == d.all_predictions[1].label
            IN IF d.top_confidence < threshold
               THEN /\ d.top_prediction = "unknown"
                    /\ IsSome(d.reason)
                    /\ Get(d.reason).original = original
               ELSE /\ d.reason = None
                    /\ d.top_prediction = original

\* C14 witness: one job with an image scored exactly at the threshold,
\* which keeps its label, and an image below it, which is "unknown"
C14_Witness ==
    \E t \in Tasks :
        \E k, l \in 1..Len(task[t].detailed_results) :
            LET d == task[t].detailed_results[k]
                e == task[t].detailed_results[l]
            IN /\ d.top_confidence = task[t].request.confidence_threshold
               /\ d.top_prediction = d.all_predictions[1].label
               /\ e.top_confidence < task[t].request.confidence_threshold
               /\ e.top_prediction = "unknown"

RECURSIVE GroupSizes(_)
\* sum(len(v) for v in grouped_by_label.values())
GroupSizes(grouped) ==
    IF grouped = <<>> THEN 0
    ELSE Len(grouped[Len(grouped)].files) + GroupSizes(Front(grouped))

\* C15: in every result classify_batch returns, the sizes of the label
\* groups sum to summary.total and to len(detailed_results).
C15_GroupSizesSumToTotal ==
    \A t \in Tasks :
        IsSome(task[t].result) =>
            LET r == Get(task[t].result)
            IN /\ GroupSizes(r.grouped_by_label) = r.summary.total
               /\ GroupSizes(r.grouped_by_label) = Len(r.detailed_results)

\* C15 witness: three images in two groups
C15_Witness ==
    \E t \in Tasks :
        /\ IsSome(task[t].result)
        /\ Len(Get(task[t].result).detailed_results) = 3
        /\ Len(Get(task[t].result).grouped_by_label) = 2

\* the places (group, position) of result r that hold filename f
Places(r, f) ==
    { <<g, k>> \in (1..Len(r.grouped_by_label)) \X (1..MaxKeys + 1) :
        /\ k <= Len(r.grouped_by_label[g].files)
        /\ r.grouped_by_label[g].files[k] = f }

\* C16 as stated: every filename of detailed_results appears in exactly
\* one label group, once.
C16_FilenameInOneGroup ==
    \A t \in Tasks :
        IsSome(task[t].result) =>
            LET r == Get(task[t].result)
            IN \A k \in 1..Len(r.detailed_results) :
                  Cardinality(Places(r, r.detailed_results[k].filename)) = 1

\* the filenames of the entries of detailed that carry the label, in order
FilesOf(detailed, label) ==
    LET HasLabel(d) == d.top_prediction = label
        entries == SelectSeq(detailed, HasLabel)
    IN [k \in 1..Len(entries) |-> entries[k].filename]

\* C16 amended: every entry of detailed_results puts its filename once into
\* the group of its top_prediction and into no other: the groups have
\* distinct labels, every label of an entry has a group, and each group
\* lists, in order, the filenames of the entries with its label.  (Two keys
\* with the same file name give that filename twice.)
C16_EntryInOneGroup ==
    \A t \in Tasks :
        IsSome(task[t].result) =>
            LET r == Get(task[t].result)
                grouped == r.grouped_by_label
            IN /\ \A g, h \in 1..Len(grouped) :
                     grouped[g].label = grouped[h].label => g = h
               /\ \A k \in 1..Len(r.detailed_results) :
                     \E g \in 1..Len(grouped) :
                         grouped[g].label = r.detailed_results[k].top_prediction
               /\ \A g \in 1..Len(grouped) :
                     grouped[g].files
                         = FilesOf(r.detailed_results, grouped[g].label)

\* C16 witness: two keys with the same file name whose images went to two
\* groups, one of them "unknown"
C16_Witness ==
    \E t \in Tasks :
        /\ IsSome(task[t].result)
        /\ LET r == Get(task[t].result)
           IN /\ Len(r.detailed_results) = 2
              /\ r.detailed_results[1].s3_key # r.detailed_results[2].s3_key
              /\ r.detailed_results[1].filename = r.detailed_results[2].filename
              /\ Len(r.grouped_by_label) = 2
              /\ r.grouped_by_label[2].label = "unknown"

\* the body asks for custom classification without a non-empty label list
NoLabels(b) ==
    /\ b.job_type = Some("custom_classification")
    /\ b.custom_labels \in {None, Some(<<>>)}

\* C17: classify_batch on a custom job whose labels are missing or empty
\* raises the validation failure before any image is resolved or
\* classified, and returns no result.
C17_MissingLabelsRejected ==
    \A t \in Tasks :
        (task[t].request # NoRequest /\ NoLabels(Body(t))) =>
            /\ task[t].resolves = <<>> /\ task[t].predicts = <<>>
            /\ task[t].result = None
            /\ task[t].pc \in {"classify", "except", "delete_failed", "done"}
            /\ task[t].pc # "classify" =>
                  task[t].error = "ValueError: custom_labels is required"

\* C17 witness: a custom job with an empty label list and keys to classify
\* was rejected and reported failed
C17_Witness ==
    \E t \in Tasks :
        /\ Body(t).custom_labels = Some(<<>>)
        /\ Len(task[t].request.s3_keys) >= 2
        /\ task[t].pc = "done"
        /\ task[t].error = "ValueError: custom_labels is required"
        /\ SentOwnFailure(t)

\* C18: a job whose list of image keys is empty is rejected with a
\* validation error: it gets no result and no completed status.
C18_EmptyKeysRejected ==
    \A t \in Tasks :
        (task[t].pc # "created" /\ Body(t).s3_keys = Some(<<>>)) =>
            /\ task[t].result = None
            /\ \A k \in 1..Len(task[t].sends) :
                  task[t].sends[k].message.status # "completed"

\* the errors resolving or classifying one image raises
ImageErrors ==
    {"ResolutionError", "InferenceError", "IndexError: list index out of range"}

\* C19: when resolving or classifying an image of a job raises,
\* classify_batch raises: the failing image is the last one an
\* image-source or classifier call is made for, no result is returned, and
\* every status sent for the job is a failed one that carries no result.
C19_ImageErrorAbortsJob ==
    \A t \in Tasks :
        task[t].error \in ImageErrors =>
            /\ task[t].pc \in {"except", "delete_failed", "done"}
            /\ task[t].result = None
            /\ Len(task[t].resolves) = Len(task[t].detailed_results) + 1
            /\ task[t].resolves
                  = SubSeq(task[t].request.s3_keys, 1, Len(task[t].resolves))
            /\ task[t].predicts \in {task[t].resolves, Front(task[t].resolves)}
            /\ \A k \in 1..Len(task[t].sends) :
                  /\ task[t].sends[k].message.status = "failed"
                  /\ DOMAIN task[t].sends[k].message
                         = {"job_id", "status", "error"}

\* C19 witness: the second of three images could not be resolved; the
\* third was never touched and the job was reported failed
C19_Witness ==
    \E t \in Tasks :
        /\ Len(task[t].request.s3_keys) = 3
        /\ task[t].error = "ResolutionError"
        /\ Len(task[t].resolves) = 2
        /\ Len(task[t].predicts) = 1
        /\ task[t].pc = "done"
        /\ SentOwnFailure(t)

\* C20: the i-th entry of detailed_results is the result for the i-th key
\* of the job, and images are resolved and classified in the order of
\* s3_keys.
C20_SubmissionOrder ==
    \A t \in Tasks :
        LET keys == task[t].request.s3_keys
        IN /\ \A k \in 1..Len(task[t].detailed_results) :
                 task[t].detailed_results[k].s3_key = keys[k]
           /\ Len(task[t].resolves) <= Len(keys)
           /\ task[t].resolves = SubSeq(keys, 1, Len(task[t].resolves))
           /\ Len(task[t].predicts) <= Len(task[t].resolves)
           /\ task[t].predicts = SubSeq(keys, 1, Len(task[t].predicts))
           /\ IsSome(task[t].result) =>
                 /\ Len(Get(task[t].result).detailed_results) = Len(keys)
                 /\ [k \in 1..Len(keys) |->
                       Get(task[t].result).detailed_results[k].s3_key] = keys

\* C20 witness: a result for three different keys that are not in
\* alphabetical order
C20_Witness ==
    \E t \in Tasks :
        /\ IsSome(task[t].result)
        /\ Len(Get(task[t].result).detailed_results) = 3
        /\ [k \in 1..3 |-> Get(task[t].result).detailed_results[k].s3_key]
              = << <<"b.jpg">>, <<"in", "a.jpg">>, <<"a.jpg">> >>

\* process_message of task t is past line 73: classify_batch returned or
\* an exception reached the handler
ClassifyEnded(t) ==
    task[t].pc \in {"send", "delete", "except", "delete_failed", "done"}

\* C21: for the same body and the same collaborator replies, POST
\* /classify answers 200 exactly when the queue path obtained a result,
\* its body is that result, which is the result every completed status of
\* the job carries, and a job classify_batch fails on the queue path
\* fails with the same error on the direct path.
C21_DirectEqualsQueue ==
    \A t \in Tasks :
        ClassifyEnded(t) =>
            LET http == Classify(Body(t), task[t].replies)
            IN /\ http.status_code = 200 <=> IsSome(task[t].result)
               /\ IsSome(task[t].result) =>
                     /\ http.body = task[t].result
                     /\ \A k \in 1..Len(task[t].sends) :
                           /\ task[t].sends[k].message.status = "completed"
                           /\ task[t].sends[k].message.result = Get(http.body)
               /\ (task[t].result = None /\ task[t].request # NoRequest) =>
                     http.detail = task[t].error

\* C21 witness: a job of two images, one of them below the default
\* threshold, completed on the queue path with the result of the direct path
C21_Witness ==
    \E t \in Tasks :
        /\ task[t].pc = "done"
        /\ IsSome(task[t].result)
        /\ Body(t).confidence_threshold = None
        /\ Len(task[t].replies) = 2
        /\ Get(task[t].result).summary.unknown = 1
        /\ Len(task[t].sends) = 1
        /\ task[t].sends[1].message.result
              = Get(Classify(Body(t), task[t].replies).body)

\* the job of task t has failed in validation, image resolution or
\* inference, and its body names a job: process_message is in its handler
JobFailed(t) ==
    /\ t \in DOMAIN task
    /\ task[t].pc = "except"
    /\ Body(t).kind = "object"
    /\ IsSome(Body(t).job_id)
    /\ task[t].error \in
          ValidationErrors \cup {"ResolutionError", "InferenceError"}

\* a failed status with the job_id of task t and a non-empty error text
\* was handed to the status channel
FailedPublished(t) ==
    /\ t \in DOMAIN task
    /\ \E k \in 1..Len(task[t].sends) :
          /\ task[t].sends[k].message.status = "failed"
          /\ Some(task[t].sends[k].message.job_id) = Body(t).job_id
          /\ task[t].sends[k].message.error.text # ""

\* C22: for every received message whose job fails in validation, image
\* resolution or inference, a failed status with the job_id and a non-empty
\* error text is eventually published (a shutdown signal aside).
C22_FailedEventuallyPublished ==
    \A t \in 1..BATCH_SIZE : JobFailed(t) ~> (FailedPublished(t) \/ shutdown)

\* The statement of C22 for the bodies whose retry_count is absent or a
\* number: there the failed status is built and eventually sent.
C22_FailedEventuallyPublishedRetry ==
    \A t \in 1..BATCH_SIZE :
        (JobFailed(t) /\ RetryComparable(Body(t)))
            ~> (FailedPublished(t) \/ shutdown)

\* the step records a status send or a delete request that failed
RequestFailed ==
    \E t \in DOMAIN task :
        /\ t \in DOMAIN task'
        /\ \/ /\ Len(task'[t].sends) = Len(task[t].sends) + 1
              /\ ~task'[t].sends[Len(task'[t].sends)].ok
           \/ /\ Len(task'[t].deletes) = Len(task[t].deletes) + 1
              /\ queue'[task[t].msg] # "deleted"

\* C23: a receive that yields no message (failed or empty) puts worker_loop
\* into its pause, and the pause ends in another receive; a failed status
\* send or delete leaves worker_loop waiting for its batch; worker_loop is
\* left only with the shutdown flag set.
C23_LoopSurvivesFailures ==
    [][ /\ (loop = "receive" /\ loop' # "receive") =>
              \/ loop' = "sleep" /\ messages' = <<>>
              \/ loop' = "gather" /\ messages' # <<>>
              \/ loop' = "exited" /\ shutdown'
        /\ (loop = "sleep" /\ loop' # "sleep") =>
              \/ loop' = "receive"
              \/ loop' = "exited" /\ shutdown'
        /\ RequestFailed => (loop' = loop /\ loop = "gather" /\ ~shutdown')
        /\ (loop' = "exited" /\ loop # "exited") => shutdown'
      ]_vars

\* after a batch in which a message was deleted, a receive gave nothing
\* although a message could be received, and worker_loop pauses
C23_Witness ==
    /\ loop = "sleep"
    /\ ~shutdown
    /\ Visible # {}
    /\ \E m \in MsgIds : queue[m] = "deleted"

\* the body of task t as a first delivery: retry_count 0
FirstDelivery(t) == [Body(t) EXCEPT !.retry_count = Some(<<"int", 0>>)]

\* C24: whatever retry_count the body carries, the worker parses the job as
\* it parses the same body with retry_count 0 and runs classification to
\* the same result or the same error; no retry_count stops the job.
C24_NoRetryLimit ==
    \A t \in Tasks :
        (Body(t).kind = "object"
            /\ task[t].pc \notin {"created", "parse", "raised"}) =>
        LET b0 == FirstDelivery(t)
        IN /\ ParseError(b0) = "" =>
                 task[t].request = ClassificationRequest(b0)
           /\ ParseError(b0) # "" =>
                 task[t].request = NoRequest /\ task[t].error = ParseError(b0)
           /\ ClassifyEnded(t) =>
                 LET http == Classify(b0, task[t].replies)
                 IN /\ http.body = task[t].result
                    /\ (http.status_code = 500) => http.detail = task[t].error

\* a job of two images delivered with retry_count 2 was classified and
\* reported completed
C24_Witness ==
    \E t \in Tasks :
        /\ Body(t).retry_count = Some(<<"int", 2>>)
        /\ task[t].pc = "done"
        /\ IsSome(task[t].result)
        /\ Len(Get(task[t].result).detailed_results) = 2
        /\ Len(task[t].sends) = 1
        /\ task[t].sends[1].message.status = "completed"

\* the distinct members of a sequence in the order of their first occurrence
RECURSIVE FirstSeen(_)
FirstSeen(s) ==
    IF s = <<>> THEN <<>>
    ELSE LET front == FirstSeen(Front(s))
             last == s[Len(s)]
         IN IF \E k \in 1..Len(front) : front[k] = last
            THEN front ELSE Append(front, last)

\* C25: the labels of grouped_by_label stand in the order in which the
\* job's images, taken in processing order, first got them, and each group
\* lists its filenames in the order their images were processed.
C25_FirstSeenOrder ==
    \A t \in Tasks :
        LET detailed == task[t].detailed_results
            grouped == IF IsSome(task[t].result)
                       THEN Get(task[t].result).grouped_by_label
                       ELSE task[t].grouped_by_label
        IN /\ [g \in 1..Len(grouped) |-> grouped[g].label]
                 = FirstSeen([k \in 1..Len(detailed) |->
                                 detailed[k].top_prediction])
           /\ \A g \in 1..Len(grouped) :
                 grouped[g].files = FilesOf(detailed, grouped[g].label)

\* C25 witness: the first and the third image of a job are unknown, the
\* second is a cat; the groups are unknown, then cat, and the unknown group
\* lists the first image before the third
C25_Witness ==
    \E t \in Tasks :
        /\ IsSome(task[t].result)
        /\ Len(Get(task[t].result).detailed_results) = 3
        /\ LET r == Get(task[t].result)
           IN /\ [g \in 1..Len(r.grouped_by_label) |->
                     r.grouped_by_label[g].label] = <<"unknown", "cat">>
              /\ r.detailed_results[2].top_prediction = "cat"
              /\ r.detailed_results[1].filename # r.detailed_results[3].filename
              /\ r.grouped_by_label[1].files
                    = <<r.detailed_results[1].filename,
                        r.detailed_results[3].filename>>

\* the place of a label in a list of distinct labels
IndexOf(labels, label) == CHOOSE k \in 1..Len(labels) : labels[k] = label

\* p is the ranked list predict owes for the labels, the probabilities the
\* network gave them and top_k
RankedTopK(p, labels, probs, top_k) ==
    LET At(i) == IndexOf(labels, p[i].label)
        Kept == {At(i) : i \in 1..Len(p)}
    IN /\ Len(p) = Min(top_k, Len(labels))
       /\ Len(p) <= top_k
       /\ \A i \in 1..Len(p) :
             /\ \E k \in 1..Len(labels) : labels[k] = p[i].label
             /\ p[i].score = probs[At(i)]
       /\ \A i, j \in 1..Len(p) :
             i < j => \/ p[i].score > p[j].score
                      \/ p[i].score = p[j].score /\ At(i) < At(j)
       /\ \A k \in (1..Len(labels)) \ Kept :
             \A i \in 1..Len(p) :
                 \/ p[i].score > probs[k]
                 \/ p[i].score = probs[k] /\ At(i) < k

\* C26: every list the open-vocabulary classifier returned to a job holds
\* min(top_k, number of labels) predictions, at most top_k, in descending
\* order of score, labels of equal score in the order of the label list,
\* and the labels left out rank behind the ones kept.
C26_ClipTopK ==
    \A t \in Tasks :
        \A k \in 1..Len(task[t].replies) :
            LET o == task[t].replies[k]
            IN (o.kind = "ok" /\ task[t].request.job_type = "custom_classification")
               => RankedTopK(o.predictions,
                             Get(task[t].request.custom_labels),
                             o.probs, task[t].request.top_k)

\* C26 witness: two labels of equal score and top_k 1: the first label of
\* the list is the one returned
C26_Witness ==
    \E t \in Tasks :
        /\ task[t].request.top_k = 1
        /\ \E k \in 1..Len(task[t].replies) :
              /\ task[t].replies[k].probs = <<50, 50>>
              /\ task[t].replies[k].predictions
                    = << [label |-> "cat", score |-> 50] >>
        /\ \E k \in 1..Len(task[t].replies) :
              /\ task[t].replies[k].probs = <<40, 60>>
              /\ task[t].replies[k].predictions
                    = << [label |-> "dog", score |-> 60] >>

\* entry d of detailed_results was overridden to "unknown"
Overridden(d) == IsSome(d.reason)

\* C27: the all_predictions of every image result is the list the
\* classifier returned for that image, overridden or not; top_confidence
\* is the score at the head of that list; and an overridden result differs
\* from the result without override in top_prediction and reason only.
C27_OverrideKeepsList ==
    \A t \in Tasks :
        \A k \in 1..Len(task[t].detailed_results) :
            LET d == task[t].detailed_results[k]
                o == task[t].replies[k]
                plain == ImageResult(d.s3_key, o.predictions, MinThreshold)
            IN /\ o.kind = "ok"
               /\ d.all_predictions = o.predictions
               /\ d.top_confidence = o.predictions[1].score
               /\ plain.reason = None
               /\ d = [plain EXCEPT !.top_prediction = d.top_prediction,
                                    !.reason = d.reason]
               /\ Overridden(d) => d.top_prediction = "unknown"
               /\ ~Overridden(d) => d = plain

\* C27 witness: a returned result holds an overridden image whose list
\* still leads with the classifier's label, and an image not overridden
C27_Witness ==
    \E t \in Tasks :
        /\ IsSome(task[t].result)
        /\ \E k \in 1..Len(Get(task[t].result).detailed_results) :
              LET d == Get(task[t].result).detailed_results[k]
              IN /\ Overridden(d)
                 /\ d.top_prediction = "unknown"
                 /\ d.all_predictions[1].label = "cat"
                 /\ d.top_confidence = 40
                 /\ Len(d.all_predictions) = 2
        /\ \E k \in 1..Len(Get(task[t].result).detailed_results) :
              ~Overridden(Get(task[t].result).detailed_results[k])

\* the number of entries of detailed whose top_prediction is "unknown"
UnknownEntries(detailed) ==
    Cardinality({k \in 1..Len(detailed) :
                    detailed[k].top_prediction = "unknown"})

\* the number of entries of detailed whose top_prediction is a label
ClassifiedEntries(detailed) ==
    Cardinality({k \in 1..Len(detailed) :
                    detailed[k].top_prediction # "unknown"})

\* C28: in every result classify_batch returns, summary.unknown is the
\* number of entries of detailed_results with top_prediction "unknown" and
\* summary.classified the number of entries with any other top_prediction.
C28_SummaryCounts ==
    \A t \in Tasks :
        IsSome(task[t].result) =>
            LET r == Get(task[t].result)
            IN /\ r.summary.unknown = UnknownEntries(r.detailed_results)
               /\ r.summary.classified = ClassifiedEntries(r.detailed_results)

\* C28 witness: a cat, then two unknown images: unknown 2, classified 1
C28_Witness ==
    \E t \in Tasks :
        /\ IsSome(task[t].result)
        /\ Len(Get(task[t].result).detailed_results) = 3
        /\ Get(task[t].result).detailed_results[1].top_prediction = "cat"
        /\ Get(task[t].result).summary.unknown = 2
        /\ Get(task[t].result).summary.classified = 1

\* the handler of task t has run for a body that names a job and whose
\* retry_count is absent or a number
HandlerRan(t) ==
    /\ task[t].pc \in {"delete_failed", "done"}
    /\ task[t].result = None
    /\ Body(t).kind = "object"
    /\ IsSome(Body(t).job_id)
    /\ RetryComparable(Body(t))

\* C29: a failed status carries the exception message of its task; for a
\* body with retry_count n >= 1 the message is prefixed with "Retry n
\* failed" (error.retry = n), for a body with retry_count absent or 0 it is
\* bare (error.retry = 0); and the handler of such a body sends it.
C29_RetryAnnotation ==
    \A t \in Tasks :
        /\ \A k \in 1..Len(task[t].sends) :
              LET m == task[t].sends[k].message
                  rc == Body(t).retry_count
              IN m.status = "failed" =>
                    /\ m.error.text = task[t].error
                    /\ m.error.text # ""
                    /\ RetryComparable(Body(t))
                    /\ m.error.retry =
                          (IF IsSome(rc) /\ Get(rc)[2] >= 1
                           THEN Get(rc)[2] ELSE 0)
        /\ HandlerRan(t) =>
              /\ Len(task[t].sends) = 1
              /\ task[t].sends[1].message.status = "failed"

\* C29 witness: the second image of a job delivered with retry_count 2
\* could not be resolved; the failed status reads "Retry 2 failed: ..."
C29_Witness ==
    \E t \in Tasks :
        /\ task[t].pc = "done"
        /\ Body(t).retry_count = Some(<<"int", 2>>)
        /\ task[t].error = "ResolutionError"
        /\ Len(task[t].detailed_results) = 1
        /\ Len(task[t].sends) = 1
        /\ task[t].sends[1].message.status = "failed"
        /\ task[t].sends[1].message.error
              = [retry |-> 2, text |-> "ResolutionError"]

\* a body without retry_count got a failed status with the bare message
C29_WitnessBare ==
    \E t \in Tasks :
        /\ task[t].pc = "done"
        /\ Body(t).retry_count = None
        /\ Len(task[t].sends) = 1
        /\ task[t].sends[1].message.status = "failed"
        /\ task[t].sends[1].message.error
              = [retry |-> 0, text |-> "InferenceError"]

\* the exception classes the error of a task can have
ErrorClasses(e) ==
    IF e = "ResolutionError" THEN ResolutionRaises
    ELSE IF e = "InferenceError" THEN InferenceRaises
    ELSE IF e = "ValueError: custom_labels is required" THEN ValidationRaises
    ELSE {e}

\* classify_batch of task t raised while resolving or classifying an image
ProcessingFailed(t) ==
    /\ ClassifyRaised(t)
    /\ task[t].error \in {"ResolutionError", "InferenceError"}

\* C30: the error of a job that failed in image resolution or inference is
\* of another kind than the error classify_batch raises for a job without
\* its labels, and the failed status names the kind of its error.
C30_ValidationKindDistinct ==
    \A t \in Tasks :
        ProcessingFailed(t) =>
            /\ ErrorClasses(task[t].error) \cap ValidationRaises = {}
            /\ \A k \in 1..Len(task[t].sends) :
                  "kind" \in DOMAIN task[t].sends[k].message

\* the failed statuses the handler sends hold the job_id, the status and
\* the text of the exception, and nothing else
C30_StatusHasNoKind ==
    \A t \in Tasks :
        \A k \in 1..Len(task[t].sends) :
            task[t].sends[k].message.status = "failed" =>
                DOMAIN task[t].sends[k].message = {"job_id", "status", "error"}

\* C31: after the startup of the application its worker thread eventually
\* stands in worker_loop issuing receive requests, and every message on
\* the request queue is eventually received.
C31_StartupStartsWorker ==
    /\ <>(loop \in {"receive", "sleep", "gather"})
    /\ \A m \in 1..NumMsgs : <>(queue[m] # "visible")

\* the application never has a worker in worker_loop, and no message
\* leaves the request queue
C31_NoWorkerEver ==
    /\ loop \in {"startup", "thread_started", "thread_ended", "no_worker"}
    /\ \A m \in MsgIds : queue[m] = "visible"

\* status message m is a completed status with a result and no error, or a
\* failed status with an error text and no result
ResultXorError(m) ==
    /\ m.status \in {"completed", "failed"}
    /\ m.status = "completed" => DOMAIN m = {"job_id", "status", "result"}
    /\ m.status = "failed" =>
          /\ DOMAIN m = {"job_id", "status", "error"}
          /\ m.error.text # ""

\* C32: every status message the worker sends names a job, is completed or
\* failed, and carries a result and no error when completed, an error and
\* no result when failed.
C32_StatusShape ==
    \A t \in Tasks :
        \A k \in 1..Len(task[t].sends) :
            /\ task[t].sends[k].message.job_id # NullJobId
            /\ ResultXorError(task[t].sends[k].message)

\* The statement of C32 without the job_id: every status sent is completed
\* with a result or failed with an error, and it names a job whenever the
\* job_id of the body is not null.
C32_StatusShapeNamed ==
    \A t \in Tasks :
        \A k \in 1..Len(task[t].sends) :
            /\ ResultXorError(task[t].sends[k].message)
            /\ Some(task[t].sends[k].message.job_id) = Body(t).job_id

\* process_message of task t has ended and its message is not deleted: the
\* delete request failed, or the task ended before issuing it
EndedUndeleted(t) == Finished(t) /\ queue[task[t].msg] # "deleted"

\* C33: a message whose process_message ended without a successful delete
\* stays in flight until its visibility timeout and is then visible again;
\* a message is received again only after that, each receive starts a
\* fresh process_message for it, whatever was done for it before, and only
\* a successful delete keeps a message from being received again.
C33_RedeliveryTolerated ==
    [][ /\ \A t \in DOMAIN task :
              EndedUndeleted(t) =>
                  /\ queue[task[t].msg] \in {"inflight", "visible"}
                  /\ queue'[task[t].msg] \in {"inflight", "visible"}
        /\ \A m \in DOMAIN count :
              /\ count'[m].received > count[m].received =>
                    /\ queue[m] = "visible" /\ queue'[m] = "inflight"
                    /\ \E t \in DOMAIN task' : task'[t] = NewTask(m)
              /\ (queue[m] = "inflight" /\ queue'[m] = "visible") =>
                    /\ loop = "receive"
                    /\ count[m].received >= 1
              /\ queue[m] = "deleted" =>
                    /\ queue'[m] = "deleted"
                    /\ count'[m].received = count[m].received
      ]_vars

\* C33 witness: the delete request of the first delivery failed, the
\* message was received a second time and processed again, and the job got
\* its second completed status
C33_Witness ==
    \E t \in Tasks :
        /\ count[task[t].msg] = [received |-> 2, sent |-> 2]
        /\ task[t].pc = "done"
        /\ IsSome(task[t].result)
        /\ Len(task[t].sends) = 1
        /\ task[t].sends[1].ok
        /\ task[t].sends[1].message.status = "completed"

\* a message without a receipt handle, whose process_message ends before
\* any delete request, was received a second time
C33_WitnessNoDelete ==
    \E t \in Tasks :
        /\ ~HasReceipt(t)
        /\ count[task[t].msg].received = 2
        /\ task[t].pc = "raised"

\* C34: a process_message makes at most one status send, so never a
\* completed and a failed one, and the number of status sends made for a
\* message never exceeds the number of times it was received.
C34_OneSendPerDelivery ==
    /\ \A t \in Tasks : Len(task[t].sends) <= 1
    /\ \A m \in DOMAIN count :
          /\ count[m].sent <= count[m].received
          /\ \A t \in Tasks :
                (task[t].msg = m /\ task[t].sends = <<>>
                    /\ task[t].pc # "done") =>
                    count[m].sent < count[m].received

\* C34 witness: a job failed at both of its deliveries and both failed
\* statuses were refused by the status queue: two receives, two sends
C34_Witness ==
    \E t \in Tasks :
        /\ count[task[t].msg] = [received |-> 2, sent |-> 2]
        /\ task[t].pc = "done"
        /\ Len(task[t].sends) = 1
        /\ task[t].sends[1].message.status = "failed"
        /\ ~task[t].sends[1].ok

C36_OthersAllReported ==
    \A t \in Tasks :
        (task[t].pc = "raised" /\ CycleEnded) =>
            \A u \in Tasks \ {t} :
                HasReceipt(u) =>
                    /\ Len(task[u].sends) = 1
                    /\ task[u].deletes = <<ReceiptHandle(u)>>

\* C36 amended: when a process_message ends by an exception (its message
\* has no receipt handle), it has sent and deleted nothing, worker_loop is
\* left only by a shutdown and resumes only when every task of the batch
\* has ended, and at the end of the batch every other message has had its
\* delete request, and one status send where the worker can name its job
\* (none for a body it cannot read or whose failed status it cannot build).
C36_EscapeIsolated ==
    \A t \in Tasks :
        task[t].pc = "raised" =>
            /\ ~HasReceipt(t)
            /\ task[t].sends = <<>> /\ task[t].deletes = <<>>
            /\ loop = "exited" => shutdown
            /\ loop \in {"receive", "sleep"} => CycleEnded
            /\ \A u \in Tasks \ {t} :
                  HasReceipt(u) =>
                      /\ task[u].pc # "raised"
                      /\ CycleEnded =>
                            /\ task[u].pc = "done"
                            /\ task[u].deletes = <<ReceiptHandle(u)>>
                            /\ Len(task[u].sends)
                                  = (IF Reportable(u) THEN 1 ELSE 0)

\* C36 witness: the first message of a batch of two had no receipt handle;
\* the second was classified, reported completed and deleted, and
\* worker_loop stands before its next receive
C36_Witness ==
    /\ Len(messages) = 2
    /\ loop = "receive"
    /\ task[1].pc = "raised"
    /\ task[2].pc = "done"
    /\ IsSome(task[2].result)
    /\ Len(task[2].sends) = 1
    /\ queue[task[2].msg] = "deleted"

\* building the failed status from body b raises: b is no JSON object, has
\* no job_id, or has a retry_count that cannot be compared with 1
StatusUnbuildable(b) ==
    \/ b.kind # "object"
    \/ ~IsSome(b.job_id)
    \/ ~RetryComparable(b)

\* C37: when the handler of process_message cannot build the failed
\* status, no status is sent, process_message does not end by an
\* exception, and when it has returned the delete request was issued.
C37_UnbuildableStatusStillDeletes ==
    \A t \in Tasks :
        (/\ HasReceipt(t)
         /\ StatusUnbuildable(Body(t))
         /\ task[t].result = None
         /\ task[t].pc \notin {"created", "parse", "classify", "image"}) =>
            /\ task[t].pc \in {"except", "delete_failed", "done"}
            /\ task[t].error # ""
            /\ task[t].sends = <<>>
            /\ task[t].pc = "done" => task[t].deletes = <<ReceiptHandle(t)>>

\* C37 witness: a job whose retry_count is a string failed in inference;
\* no status was sent and the delete request was issued
C37_Witness ==
    \E t \in Tasks :
        /\ Body(t).retry_count = Some(<<"str", 0>>)
        /\ IsSome(Body(t).job_id)
        /\ task[t].error = "InferenceError"
        /\ task[t].pc = "done"
        /\ task[t].sends = <<>>
        /\ task[t].deletes = <<ReceiptHandle(t)>>

\* the number of entries of detailed that carry a reason
OverriddenEntries(detailed) ==
    Cardinality({k \in 1..Len(detailed) : Overridden(detailed[k])})

\* C38: in every result classify_batch returns, summary.unknown and the
\* size of the "unknown" group equal the number of image results with a
\* reason, whatever labels the classifier returned.
C38_UnknownIffBelowThreshold ==
    \A t \in Tasks :
        IsSome(task[t].result) =>
            LET r == Get(task[t].result)
            IN /\ r.summary.unknown = OverriddenEntries(r.detailed_results)
               /\ Len(GroupGet(r.grouped_by_label, "unknown"))
                     = OverriddenEntries(r.detailed_results)
               /\ \A k \in 1..Len(r.detailed_results) :
                     r.detailed_results[k].top_prediction = "unknown"
                         <=> Overridden(r.detailed_results[k])

\* The statement of C38 for the jobs none of whose labels is "unknown".
C38_UnknownIffBelowThresholdOtherLabels ==
    \A t \in Tasks :
        (IsSome(task[t].result)
            /\ Body(t).custom_labels # Some(<<"unknown", "dog">>)) =>
            LET r == Get(task[t].result)
            IN /\ r.summary.unknown = OverriddenEntries(r.detailed_results)
               /\ Len(GroupGet(r.grouped_by_label, "unknown"))
                     = OverriddenEntries(r.detailed_results)
               /\ \A k \in 1..Len(r.detailed_results) :
                     r.detailed_results[k].top_prediction = "unknown"
                         <=> Overridden(r.detailed_results[k])

\* the classifier returned an empty list for the k-th image of task t
EmptyReply(t, k) ==
    /\ k \in 1..Len(task[t].replies)
    /\ task[t].replies[k].kind = "ok"
    /\ task[t].replies[k].predictions = <<>>

\* what an empty list as the k-th reply does to the job of task t: no
\* image result for that image, no image after it, no result
AbortedAt(t, k) ==
    /\ Len(task[t].replies) = k
    /\ Len(task[t].detailed_results) = k - 1
    /\ task[t].resolves = SubSeq(task[t].request.s3_keys, 1, k)
    /\ task[t].result = None
    /\ task[t].error = "IndexError: list index out of range"
    /\ task[t].pc \in {"except", "delete_failed", "done"}
    /\ task[t].pc = "done" => task[t].deletes = <<ReceiptHandle(t)>>

\* C39: when the classifier returns an empty list for an image, no image
\* result is made for it, classify_batch raises and processes no further
\* image, and the worker sends a failed status for the job and issues the
\* delete request.
C39_EmptyListFailsJob ==
    \A t \in Tasks :
        \A k \in 1..MaxKeys :
            EmptyReply(t, k) =>
                /\ AbortedAt(t, k)
                /\ task[t].pc \in {"delete_failed", "done"} =>
                      SentOwnFailure(t)

\* The statement of C39 for the bodies whose retry_count is absent or a
\* number: there the failed status is built and sent.
C39_EmptyListFailsJobRetry ==
    \A t \in Tasks :
        \A k \in 1..MaxKeys :
            EmptyReply(t, k) =>
                /\ AbortedAt(t, k)
                /\ (RetryComparable(Body(t))
                      /\ task[t].pc \in {"delete_failed", "done"}) =>
                      SentOwnFailure(t)

\* the second image of a job got an empty list; the job was reported
\* failed after one image result and its message deleted
EmptyListReported ==
    \E t \in Tasks :
        /\ EmptyReply(t, 2)
        /\ task[t].pc = "done"
        /\ Len(task[t].detailed_results) = 1
        /\ SentOwnFailure(t)
        /\ queue[task[t].msg] = "deleted"

====
